---- MODULE Spec2Model ----
(***************************************************************************)
(* G-code editor: the parser (GcodeParser), the transformer                *)
(* (TransformationUtils), the editor state that drives them and the server *)
(* that stores the files.                                                  *)
(*                                                                         *)
(* Representation.                                                         *)
(*   - A JavaScript string is a sequence of one-character strings, so that *)
(*     trim, indexOf, the two regular expressions, toFixed and parseFloat  *)
(*     are computed character by character.                                *)
(*   - A JavaScript number is an integer count of 10^-FracDigits units     *)
(*     (fixed point).  No value the model hands to toFixed(3) lies within  *)
(*     10^-5 of a rounding tie, so the binary64 error of the code's        *)
(*     arithmetic (below 10^-6 on the values used) never changes a         *)
(*     toFixed(3) result.                                                  *)
(*   - An optional field (x?: number, comment?: string) is a set of at     *)
(*     most one element: {} is undefined, {v} is the value v.              *)
(***************************************************************************)
EXTENDS Integers, Sequences, FiniteSets, TLC

VARIABLES
    content,         \* text of the loaded file (GcodeFile.content)
    units,           \* editor state `units`
    parsedWith,      \* value of `units` when the file was parsed
    commands,        \* editor state `commands`: the parsed command list
    selectedLines,   \* editor state `selectedLines`: a set of indices
    transformation,  \* TransformationPanel state `transformation`
    call,            \* the last call of a pure function and its result, if any
    hasUnsavedChanges,  \* editor state `hasUnsavedChanges`
    egress,          \* the last text handed to save or download, if any
    visibleZHeights, \* editor state `visibleZHeights`: a set of z values
    renderer,        \* the GcodeRenderer of the visualization panel
    drag,            \* panel state isSelecting, selectionStart, selectionEnd
    rendered,        \* the command list of the last render call, if any
    storage,         \* the server's MemStorage: files and currentId
    currentFile,     \* editor state `currentFile`: a stored file or nothing
    network,         \* requests and responses in flight
    lastResponse     \* the last request answered at once (SpecStore), with its answer

\* The editor page, the visualization panel with its renderer.
editorVars == <<content, units, parsedWith, commands, selectedLines, transformation,
                hasUnsavedChanges, egress>>
viewVars == <<visibleZHeights, renderer, drag, rendered>>
\* The server, the file the editor holds and the messages between them.
serverVars == <<storage, currentFile, network, lastResponse>>

vars == <<content, units, parsedWith, commands, selectedLines, transformation, call,
          hasUnsavedChanges, egress, visibleZHeights, renderer, drag, rendered,
          storage, currentFile, network, lastResponse>>

(***************************************************************************)
(* Bounds of the model.                                                    *)
(***************************************************************************)
\* Longest text, in physical lines.
MaxLines == 2
\* Decimal places a number of the model carries.
FracDigits == 5

Unit == 10 ^ FracDigits

\* The number i (an integer), and the number k / 10000.
Whole(i) == i * Unit
Dec4(k) == k * (Unit \div 10000)

None == {}
Some(v) == {v}
Get(o) == CHOOSE v \in o : TRUE

(***************************************************************************)
(* String primitives of the JavaScript runtime used by the code.           *)
(***************************************************************************)
Digits == <<"0", "1", "2", "3", "4", "5", "6", "7", "8", "9">>
LowerCase == <<"a", "b", "c", "d", "e", "f", "g", "h", "i", "j", "k", "l", "m",
               "n", "o", "p", "q", "r", "s", "t", "u", "v", "w", "x", "y", "z">>
UpperCase == <<"A", "B", "C", "D", "E", "F", "G", "H", "I", "J", "K", "L", "M",
               "N", "O", "P", "Q", "R", "S", "T", "U", "V", "W", "X", "Y", "Z">>

IsDigit(c) == \E d \in 1..10 : Digits[d] = c
DigitValue(c) == (CHOOSE d \in 1..10 : Digits[d] = c) - 1

\* String.prototype.toUpperCase, one character.
ToUpperChar(c) ==
    IF \E k \in 1..26 : LowerCase[k] = c
    THEN UpperCase[CHOOSE k \in 1..26 : LowerCase[k] = c]
    ELSE c

\* String.prototype.toUpperCase.
ToUpperCase(s) == [k \in 1..Len(s) |-> ToUpperChar(s[k])]

\* White space removed by String.prototype.trim.
IsWhiteSpace(c) == c \in {" ", "\t", "\r"}

\* String.prototype.trim: from the first to the last character that is not
\* white space.
Trim(s) ==
    LET ink == {k \in 1..Len(s) : ~IsWhiteSpace(s[k])}
    IN  IF ink = {} THEN <<>>
        ELSE SubSeq(s, CHOOSE k \in ink : \A j \in ink : k <= j,
                       CHOOSE k \in ink : \A j \in ink : k >= j)

\* String.prototype.startsWith, for a one-character prefix.
StartsWith(s, c) == s # <<>> /\ s[1] = c

\* String.prototype.lastIndexOf, 1-based, 0 when c does not occur.
LastIndexOf(s, c) ==
    IF \E k \in 1..Len(s) : s[k] = c
    THEN CHOOSE k \in 1..Len(s) : s[k] = c /\ \A j \in (k + 1)..Len(s) : s[j] # c
    ELSE 0

\* String.prototype.indexOf, 1-based, 0 when c does not occur (JavaScript: -1).
IndexOf(s, c) ==
    IF \E k \in 1..Len(s) : s[k] = c
    THEN CHOOSE k \in 1..Len(s) : s[k] = c /\ \A j \in 1..(k - 1) : s[j] # c
    ELSE 0

\* content.split('\n'): the physical lines of a text, one more than it has
\* newline characters.
Split(s) ==
    LET nl     == {k \in 1..Len(s) : s[k] = "\n"}
        n      == Cardinality(nl)
        Pos(i) == CHOOSE k \in nl : Cardinality({j \in nl : j < k}) = i - 1
    IN  [i \in 1..(n + 1) |->
            SubSeq(s, IF i = 1 THEN 1 ELSE Pos(i - 1) + 1,
                      IF i = n + 1 THEN Len(s) ELSE Pos(i) - 1)]

RECURSIVE Join(_)
\* Array.prototype.join('\n').
Join(ls) ==
    IF ls = <<>> THEN <<>>
    ELSE IF Len(ls) = 1 THEN ls[1]
    ELSE ls[1] \o <<"\n">> \o Join(Tail(ls))

(***************************************************************************)
(* Number <-> string conversions of the JavaScript runtime.                *)
(***************************************************************************)
Abs(v) == IF v < 0 THEN -v ELSE v

RECURSIVE DigitsToInt(_)
DigitsToInt(ds) ==
    IF ds = <<>> THEN 0
    ELSE 10 * DigitsToInt(SubSeq(ds, 1, Len(ds) - 1)) + DigitValue(ds[Len(ds)])

RECURSIVE IntToDigits(_)
IntToDigits(n) ==
    IF n < 10 THEN <<Digits[n + 1]>>
    ELSE Append(IntToDigits(n \div 10), Digits[(n % 10) + 1])

\* n written with at least w digits, zero-padded on the left.
RECURSIVE PadLeft(_, _)
PadLeft(ds, w) == IF Len(ds) >= w THEN ds ELSE PadLeft(<<"0">> \o ds, w)

RECURSIVE StripTrailingZeros(_)
StripTrailingZeros(ds) ==
    IF ds # <<>> /\ ds[Len(ds)] = "0"
    THEN StripTrailingZeros(SubSeq(ds, 1, Len(ds) - 1))
    ELSE ds

\* The first FracDigits digits of a fraction, zero-padded on the right.
FractionUnits(fs) ==
    DigitsToInt([k \in 1..FracDigits |-> IF k <= Len(fs) THEN fs[k] ELSE "0"])

\* parseFloat on a string of the form -?digits(.digits)? : every string the
\* code hands to parseFloat has this form (a match of the parameter regular
\* expression, or a toFixed result).
ParseFloat(s) ==
    LET neg  == StartsWith(s, "-")
        body == IF neg THEN Tail(s) ELSE s
        dot  == IndexOf(body, ".")
        ip   == IF dot = 0 THEN body ELSE SubSeq(body, 1, dot - 1)
        fp   == IF dot = 0 THEN <<>> ELSE SubSeq(body, dot + 1, Len(body))
        mag  == DigitsToInt(ip) * Unit + FractionUnits(fp)
    IN  IF neg THEN -mag ELSE mag

\* Number.prototype.toFixed(3): the nearest multiple of 0.001, the larger one
\* on a tie, the sign of a negative number kept ("-0.000").
ToFixed3(v) ==
    LET step == Unit \div 1000
        n    == (Abs(v) + (step \div 2)) \div step
    IN  (IF v < 0 THEN <<"-">> ELSE <<>>)
        \o IntToDigits(n \div 1000) \o <<".">> \o PadLeft(IntToDigits(n % 1000), 3)

\* Number to string as a template literal does it (`${f}`): the shortest
\* decimal, no fraction for an integer.
NumberToString(v) ==
    LET a    == Abs(v)
        frac == StripTrailingZeros(PadLeft(IntToDigits(a % Unit), FracDigits))
    IN  (IF v < 0 THEN <<"-">> ELSE <<>>)
        \o IntToDigits(a \div Unit)
        \o (IF frac = <<>> THEN <<>> ELSE <<".">> \o frac)

(***************************************************************************)
(* GcodeParser                                                             *)
(***************************************************************************)
InstructionLetters == {"G", "M", "T"}
ParameterLetters == {"X", "Y", "Z", "F", "E", "S", "T"}

\* Index of the last character of the run of digits starting at k
\* (k - 1 when s[k] is no digit).
DigitsEnd(s, k) ==
    CHOOSE j \in (k - 1)..Len(s) :
        /\ \A i \in k..j : IsDigit(s[i])
        /\ j = Len(s) \/ ~IsDigit(s[j + 1])

\* CommandMatch with a seeded fault: the instruction letter alone is accepted.
CommandMatchNoDigits(codePart) ==
    IF codePart # <<>> /\ ToUpperChar(codePart[1]) \in InstructionLetters
    THEN Some(SubSeq(codePart, 1, DigitsEnd(codePart, 2)))
    ELSE None

\* codePart.match(/^([GMT]\d+)/i): the captured group, or nothing.
CommandMatch(codePart) ==
    IF /\ Len(codePart) >= 2
       /\ ToUpperChar(codePart[1]) \in InstructionLetters
       /\ IsDigit(codePart[2])
    THEN Some(SubSeq(codePart, 1, DigitsEnd(codePart, 2)))
    ELSE None

\* One attempt of /([XYZFEST])(-?\d+\.?\d*)/gi at position k: the index of the
\* last character matched, or 0 when the expression does not match at k.
ParamMatchEnd(s, k) ==
    IF ToUpperChar(s[k]) \notin ParameterLetters THEN 0
    ELSE LET d  == IF k + 1 <= Len(s) /\ s[k + 1] = "-" THEN k + 2 ELSE k + 1
             e1 == DigitsEnd(s, d)
         IN  IF e1 < d THEN 0
             ELSE IF e1 + 1 <= Len(s) /\ s[e1 + 1] = "." THEN DigitsEnd(s, e1 + 2)
             ELSE e1

NoParams == [X |-> None, Y |-> None, Z |-> None, F |-> None, E |-> None,
             S |-> None, T |-> None]

RECURSIVE ScanParameters(_, _, _)
\* The loop over line.matchAll(...): the matches from position k on, left to
\* right, each search resuming behind the previous match.
ScanParameters(line, k, params) ==
    LET starts == {j \in k..Len(line) : ParamMatchEnd(line, j) # 0}
    IN  IF starts = {} THEN params
        ELSE LET start == CHOOSE j \in starts : \A i \in starts : j <= i
                 end   == ParamMatchEnd(line, start)
                 param == ToUpperChar(line[start])
                 value == ParseFloat(SubSeq(line, start + 1, end))
             IN  \* isNaN(value) is false for every match
                 ScanParameters(line, end + 1,
                                [params EXCEPT ![param] = Some(value)])

\* GcodeParser.extractParameters
ExtractParameters(line) == ScanParameters(line, 1, NoParams)

\* GcodeParser.parseLine: the command of a trimmed line, or nothing (null).
ParseLine(line, lineNumber) ==
    LET commentIndex == IndexOf(line, ";")
        codePart == IF commentIndex # 0
                    THEN Trim(SubSeq(line, 1, commentIndex - 1))
                    ELSE line
        comment  == IF commentIndex # 0
                    THEN Some(Trim(SubSeq(line, commentIndex + 1, Len(line))))
                    ELSE None
        commandMatch == CommandMatch(codePart)
    IN  IF codePart = <<>> THEN None
        ELSE IF commandMatch = None THEN None
        ELSE LET params == ExtractParameters(codePart)
             IN  Some([line    |-> lineNumber,
                       command |-> ToUpperCase(Get(commandMatch)),
                       x |-> params.X, y |-> params.Y, z |-> params.Z,
                       f |-> params.F, e |-> params.E, s |-> params.S,
                       comment |-> comment,
                       raw     |-> line])

\* The record pushed for a line that starts with ';'.
CommentCommand(trimmedLine, lineNumber) ==
    [line    |-> lineNumber,
     command |-> <<>>,
     x |-> None, y |-> None, z |-> None, f |-> None, e |-> None, s |-> None,
     comment |-> Some(Trim(Tail(trimmedLine))),
     raw     |-> trimmedLine]

\* ParseLines with a seeded fault: a command is numbered by its position
\* among the commands kept so far, not by its physical line.
RECURSIVE ParseLinesCountingKept(_, _, _)
ParseLinesCountingKept(lines, index, acc) ==
    IF index >= Len(lines) THEN acc
    ELSE LET trimmedLine == Trim(lines[index + 1])
         IN  IF trimmedLine = <<>> \/ StartsWith(trimmedLine, ";")
             THEN IF StartsWith(trimmedLine, ";")
                  THEN ParseLinesCountingKept(lines, index + 1,
                           Append(acc, CommentCommand(trimmedLine, Len(acc) + 1)))
                  ELSE ParseLinesCountingKept(lines, index + 1, acc)
             ELSE LET command == ParseLine(trimmedLine, Len(acc) + 1)
                  IN  IF command # None
                      THEN ParseLinesCountingKept(lines, index + 1,
                                                  Append(acc, Get(command)))
                      ELSE ParseLinesCountingKept(lines, index + 1, acc)

RECURSIVE ParseLines(_, _, _)
\* The body of lines.forEach in GcodeParser.parse; index is 0-based.
ParseLines(lines, index, acc) ==
    IF index >= Len(lines) THEN acc
    ELSE LET trimmedLine == Trim(lines[index + 1])
         IN  IF trimmedLine = <<>> \/ StartsWith(trimmedLine, ";")
             THEN IF StartsWith(trimmedLine, ";")
                  THEN ParseLines(lines, index + 1,
                                  Append(acc, CommentCommand(trimmedLine, index + 1)))
                  ELSE ParseLines(lines, index + 1, acc)
             ELSE LET command == ParseLine(trimmedLine, index + 1)
                  IN  IF command # None
                      THEN ParseLines(lines, index + 1, Append(acc, Get(command)))
                      ELSE ParseLines(lines, index + 1, acc)

\* GcodeParser.parse
Parse(text) == ParseLines(Split(text), 0, <<>>)

(***************************************************************************)
(* TransformationUtils: serialisation.                                     *)
(***************************************************************************)
\* JavaScript truthiness of an optional string: defined and not empty.
Truthy(str) == str # None /\ Get(str) # <<>>

\* ReconstructGcodeContent with a seeded fault: the test command === '' is
\* dropped, so every commented command is written as a comment line.
ReconstructCommentFirst(cmds) ==
    Join([i \in 1..Len(cmds) |->
            IF Truthy(cmds[i].comment)
            THEN <<";", " ">> \o Get(cmds[i].comment)
            ELSE cmds[i].raw])

\* ReconstructGcodeContent with a seeded fault: every entry is written as its
\* raw text.
ReconstructRawOnly(cmds) == Join([i \in 1..Len(cmds) |-> cmds[i].raw])

\* TransformationUtils.reconstructGcodeContent
ReconstructGcodeContent(cmds) ==
    Join([i \in 1..Len(cmds) |->
            IF cmds[i].command = <<>> /\ Truthy(cmds[i].comment)
            THEN <<";", " ">> \o Get(cmds[i].comment)
            ELSE cmds[i].raw])

(***************************************************************************)
(* TransformationUtils: applyTransformationToRegion.                       *)
(*                                                                         *)
(* Arrays and objects live in a heap, so that a copy is told from an alias *)
(* and a replaced entry from one changed in place:                         *)
(*   heap.arrs[a] is the array with reference a, a sequence of object      *)
(*   references; heap.objs[o] is the command object with reference o.      *)
(* A reference is the position at which the array or object was allocated. *)
(***************************************************************************)
\* The angle 53.1301 degrees, whose cosine is 3/5 and sine 4/5 to within
\* 4 * 10^-8 (atan(4/3) is 53.13010235... degrees).
Angle345 == Dec4(531301)

\* Math.cos and Math.sin of (deg * Math.PI) / 180 for a whole number of
\* quarter turns and for Angle345 and its opposite, deg in degrees.  The
\* binary64 results differ from these by less than 10^-7, which moves no
\* toFixed(3) result of a value that is not within 10^-5 of a rounding tie.
Cosine(deg) ==
    CASE deg % Whole(360) = 0          -> Whole(1)
      [] deg % Whole(360) = Whole(90)  -> 0
      [] deg % Whole(360) = Whole(180) -> Whole(-1)
      [] deg % Whole(360) = Whole(270) -> 0
      [] deg % Whole(360) = Angle345   -> Dec4(6000)
      [] deg % Whole(360) = Whole(360) - Angle345 -> Dec4(6000)

\* Sine with a seeded fault: the sign of the angle is lost.
SineUnsigned(deg) ==
    CASE deg % Whole(360) = 0          -> 0
      [] deg % Whole(360) = Whole(90)  -> Whole(1)
      [] deg % Whole(360) = Whole(180) -> 0
      [] deg % Whole(360) = Whole(270) -> Whole(1)
      [] deg % Whole(360) = Angle345   -> Dec4(8000)
      [] deg % Whole(360) = Whole(360) - Angle345 -> Dec4(8000)

Sine(deg) ==
    CASE deg % Whole(360) = 0          -> 0
      [] deg % Whole(360) = Whole(90)  -> Whole(1)
      [] deg % Whole(360) = Whole(180) -> 0
      [] deg % Whole(360) = Whole(270) -> Whole(-1)
      [] deg % Whole(360) = Angle345   -> Dec4(8000)
      [] deg % Whole(360) = Whole(360) - Angle345 -> Dec4(-8000)

\* The product of two fractions p, q of 0 .. Unit - 1 units, rounded down to
\* a unit; computed in two steps to stay within 32-bit integers.
FracMul(p, q) ==
    (p * (q \div 1000) + (p * (q % 1000)) \div 1000) \div (Unit \div 1000)

\* The product of two numbers, rounded down to a unit (exact on the values
\* of the model).
Mul(a, b) ==
    a * (b \div Unit) + (a \div Unit) * (b % Unit) + FracMul(a % Unit, b % Unit)

\* TransformedXY with a seeded fault: scaling is applied before rotation.
TransformedXYScaleFirst(cmd, t) ==
    LET sx == Mul(Get(cmd.x), t.scaleX)
        sy == Mul(Get(cmd.y), t.scaleY)
        rx == IF t.rotation # 0
              THEN Mul(sx, Cosine(t.rotation)) - Mul(sy, Sine(t.rotation))
              ELSE sx
        ry == IF t.rotation # 0
              THEN Mul(sx, Sine(t.rotation)) + Mul(sy, Cosine(t.rotation))
              ELSE sy
    IN  <<rx + t.translateX, ry + t.translateY>>

\* The x and y applyTransformationToRegion computes for a command that has
\* both: rotation about the origin, then scaling, then translation.
TransformedXY(cmd, t) ==
    LET x0 == Get(cmd.x)
        y0 == Get(cmd.y)
        rx == IF t.rotation # 0
              THEN Mul(x0, Cosine(t.rotation)) - Mul(y0, Sine(t.rotation))
              ELSE x0
        ry == IF t.rotation # 0
              THEN Mul(x0, Sine(t.rotation)) + Mul(y0, Cosine(t.rotation))
              ELSE y0
    IN  <<Mul(rx, t.scaleX) + t.translateX, Mul(ry, t.scaleY) + t.translateY>>

\* The z applyTransformationToRegion computes.
TransformedZ(cmd, t) ==
    IF cmd.z # None /\ t.translateZ # 0
    THEN Some(Get(cmd.z) + t.translateZ)
    ELSE cmd.z

\* RegenerateGcodeLine with a seeded fault: the feed word is written before
\* the coordinates.
RegenerateFeedFirst(originalCmd, x, y, z) ==
    originalCmd.command
    \o (IF originalCmd.f # None
        THEN <<" ", "F">> \o NumberToString(Get(originalCmd.f)) ELSE <<>>)
    \o <<" ", "X">> \o ToFixed3(x)
    \o <<" ", "Y">> \o ToFixed3(y)
    \o (IF z # None THEN <<" ", "Z">> \o ToFixed3(Get(z)) ELSE <<>>)
    \o (IF originalCmd.e # None
        THEN <<" ", "E">> \o ToFixed3(Get(originalCmd.e)) ELSE <<>>)
    \o (IF originalCmd.s # None
        THEN <<" ", "S">> \o NumberToString(Get(originalCmd.s)) ELSE <<>>)
    \o (IF Truthy(originalCmd.comment)
        THEN <<" ", ";", " ">> \o Get(originalCmd.comment) ELSE <<>>)

\* TransformationUtils.regenerateGcodeLine.  x and y are numbers at its only
\* call sites, so its tests x !== undefined and y !== undefined hold.
RegenerateGcodeLine(originalCmd, x, y, z) ==
    originalCmd.command
    \o <<" ", "X">> \o ToFixed3(x)
    \o <<" ", "Y">> \o ToFixed3(y)
    \o (IF z # None THEN <<" ", "Z">> \o ToFixed3(Get(z)) ELSE <<>>)
    \o (IF originalCmd.f # None
        THEN <<" ", "F">> \o NumberToString(Get(originalCmd.f)) ELSE <<>>)
    \o (IF originalCmd.e # None
        THEN <<" ", "E">> \o ToFixed3(Get(originalCmd.e)) ELSE <<>>)
    \o (IF originalCmd.s # None
        THEN <<" ", "S">> \o NumberToString(Get(originalCmd.s)) ELSE <<>>)
    \o (IF Truthy(originalCmd.comment)
        THEN <<" ", ";", " ">> \o Get(originalCmd.comment) ELSE <<>>)

\* The object literal { ...cmd, x, y, z, raw } assigned to result[index].
TransformedCommand(cmd, t) ==
    LET xy == TransformedXY(cmd, t)
        z  == TransformedZ(cmd, t)
    IN  [cmd EXCEPT
            !.x   = Some(ParseFloat(ToFixed3(xy[1]))),
            !.y   = Some(ParseFloat(ToFixed3(xy[2]))),
            !.z   = IF z # None THEN Some(ParseFloat(ToFixed3(Get(z)))) ELSE None,
            !.raw = RegenerateGcodeLine(cmd, xy[1], xy[2], z)]

\* [...commands] with a seeded fault: the array is aliased, not copied.
AliasArray(heap, ref) == [heap |-> heap, ref |-> ref]

\* [...commands]: a new array holding the same object references.
CopyArray(heap, ref) ==
    [heap |-> [heap EXCEPT !.arrs = Append(@, heap.arrs[ref])],
     ref  |-> Len(heap.arrs) + 1]

\* ApplyAt with a seeded fault: a command lacking x or y still has its z
\* translated, in a new object whose raw is rebuilt from the words it has.
ApplyAtTranslatingZ(heap, result, index, t) ==
    IF index >= 0 /\ index < Len(heap.arrs[result])
    THEN LET cmd == heap.objs[heap.arrs[result][index + 1]]
             z   == TransformedZ(cmd, t)
             new == IF cmd.x = None \/ cmd.y = None
                    THEN [cmd EXCEPT
                            !.z   = z,
                            !.raw = cmd.command
                                    \o (IF z # None
                                        THEN <<" ", "Z">> \o ToFixed3(Get(z))
                                        ELSE <<>>)]
                    ELSE TransformedCommand(cmd, t)
         IN  [arrs |-> [heap.arrs EXCEPT ![result][index + 1] = Len(heap.objs) + 1],
              objs |-> Append(heap.objs, new)]
    ELSE heap

\* The body of selectedIndices.forEach for one index (0-based).
ApplyAt(heap, result, index, t) ==
    IF index >= 0 /\ index < Len(heap.arrs[result])
    THEN LET cmd == heap.objs[heap.arrs[result][index + 1]]
         IN  IF cmd.x = None \/ cmd.y = None THEN heap
             ELSE [arrs |-> [heap.arrs EXCEPT
                               ![result][index + 1] = Len(heap.objs) + 1],
                   objs |-> Append(heap.objs, TransformedCommand(cmd, t))]
    ELSE heap

RECURSIVE ForEachIndex(_, _, _, _, _)
ForEachIndex(heap, result, selectedIndices, k, t) ==
    IF k > Len(selectedIndices) THEN heap
    ELSE ForEachIndex(ApplyAt(heap, result, selectedIndices[k], t),
                      result, selectedIndices, k + 1, t)

\* TransformationUtils.applyTransformationToRegion: the heap after the call
\* and the reference of the array it returns.
ApplyTransformationToRegion(heap, commandsRef, selectedIndices, t) ==
    LET copy == CopyArray(heap, commandsRef)
    IN  [heap |-> ForEachIndex(copy.heap, copy.ref, selectedIndices, 1, t),
         ref  |-> copy.ref]

\* Array.from(selectedLines): the indices of a set.  A set of distinct
\* indices gives the same result in every order; ascending order is taken.
ArrayFrom(set) ==
    [i \in 1..Cardinality(set) |->
        CHOOSE k \in set : Cardinality({j \in set : j < k}) = i - 1]

\* The heap holding one array, reference 1, of the given command values.
HeapOf(cmds) == [arrs |-> <<[i \in 1..Len(cmds) |-> i]>>, objs |-> cmds]

\* The command values of the array with reference ref.
ValuesOf(heap, ref) == [i \in 1..Len(heap.arrs[ref]) |-> heap.objs[heap.arrs[ref][i]]]

(***************************************************************************)
(* Numbers of the bounding-box and viewport arithmetic.                    *)
(*                                                                         *)
(* That arithmetic divides and starts its folds at Infinity, so a number   *)
(* is here a record: k is "fin", "inf" or "nan"; s is the sign (1 or -1,   *)
(* kept for zero and for the infinities); n / d is the magnitude of a      *)
(* finite number, a fraction in lowest terms.  Finite results are exact:   *)
(* the binary64 rounding of the code is not modelled.                      *)
(***************************************************************************)
RECURSIVE GCD(_, _)
GCD(a, b) == IF b = 0 THEN a ELSE GCD(b, a % b)

\* The number sn / d for an integer sn and d > 0.
Rat(sn, d) ==
    LET g == GCD(Abs(sn), d)
    IN  [k |-> "fin", s |-> IF sn < 0 THEN -1 ELSE 1, n |-> Abs(sn) \div g, d |-> d \div g]

Zero(sign) == [k |-> "fin", s |-> sign, n |-> 0, d |-> 1]
Infinity == [k |-> "inf", s |-> 1, n |-> 0, d |-> 1]
NegInfinity == [k |-> "inf", s |-> -1, n |-> 0, d |-> 1]
NaN == [k |-> "nan", s |-> 1, n |-> 0, d |-> 1]

\* A fixed-point number (a field of a command) and a whole number.
NumOf(v) == Rat(v, Unit)
NumInt(i) == Rat(i, 1)

IsNaN(a) == a.k = "nan"
IsFinite(a) == a.k = "fin"
IsZero(a) == a.k = "fin" /\ a.n = 0
Signed(a) == a.s * a.n

\* -a
Neg(a) == IF IsNaN(a) THEN a ELSE [a EXCEPT !.s = -a.s]

\* a + b
Plus(a, b) ==
    IF IsNaN(a) \/ IsNaN(b) \/ (a.k = "inf" /\ b.k = "inf" /\ a.s # b.s) THEN NaN
    ELSE IF a.k = "inf" THEN a
    ELSE IF b.k = "inf" THEN b
    ELSE LET sum == Signed(a) * b.d + Signed(b) * a.d
         IN  IF sum = 0
             THEN Zero(IF IsZero(a) /\ IsZero(b) /\ a.s = -1 /\ b.s = -1 THEN -1 ELSE 1)
             ELSE Rat(sum, a.d * b.d)

\* a - b
Minus(a, b) == Plus(a, Neg(b))

\* a * b
Times(a, b) ==
    IF IsNaN(a) \/ IsNaN(b) \/ (a.k = "inf" /\ IsZero(b)) \/ (IsZero(a) /\ b.k = "inf")
    THEN NaN
    ELSE IF a.k = "inf" \/ b.k = "inf" THEN [Infinity EXCEPT !.s = a.s * b.s]
    ELSE [Rat(a.n * b.n, a.d * b.d) EXCEPT !.s = a.s * b.s]

\* a / b
Over(a, b) ==
    IF IsNaN(a) \/ IsNaN(b) \/ (a.k = "inf" /\ b.k = "inf") \/ (IsZero(a) /\ IsZero(b))
    THEN NaN
    ELSE IF a.k = "inf" \/ IsZero(b) THEN [Infinity EXCEPT !.s = a.s * b.s]
    ELSE IF b.k = "inf" THEN Zero(a.s * b.s)
    ELSE [Rat(a.n * b.d, a.d * b.n) EXCEPT !.s = a.s * b.s]

\* a < b, a === b, a <= b, a >= b: false when either is NaN; -0 equals 0.
Less(a, b) ==
    /\ ~IsNaN(a) /\ ~IsNaN(b)
    /\ IF a.k = "inf" THEN a.s = -1 /\ ~(b.k = "inf" /\ b.s = -1)
       ELSE IF b.k = "inf" THEN b.s = 1
       ELSE Signed(a) * b.d < Signed(b) * a.d
StrictEquals(a, b) == ~IsNaN(a) /\ ~IsNaN(b) /\ ~Less(a, b) /\ ~Less(b, a)
LessEq(a, b) == Less(a, b) \/ StrictEquals(a, b)
GreaterEq(a, b) == LessEq(b, a)

\* Math.min and Math.max of two numbers: NaN if either is; -0 is below 0.
MathMin(a, b) ==
    IF IsNaN(a) \/ IsNaN(b) THEN NaN
    ELSE IF Less(a, b) THEN a
    ELSE IF Less(b, a) THEN b
    ELSE IF a.s = -1 THEN a ELSE b
MathMax(a, b) ==
    IF IsNaN(a) \/ IsNaN(b) THEN NaN
    ELSE IF Less(a, b) THEN b
    ELSE IF Less(b, a) THEN a
    ELSE IF a.s = 1 THEN a ELSE b

(***************************************************************************)
(* GcodeParser: getZHeights, getCommandsInRegion, getBounds.               *)
(* TransformationUtils: calculateSelectionBounds.                          *)
(***************************************************************************)
\* The z values of getZHeights (the editor keeps them as a set).
GetZHeights(cmds) == {Get(cmds[i].z) : i \in {j \in 1..Len(cmds) : cmds[j].z # None}}

\* getCommandsInRegion with a seeded fault: the corners are not normalised,
\* (x1, y1) is taken for the lower corner.
GetCommandsInRegionAsGiven(cmds, x1, y1, x2, y2) ==
    LET Inside(cmd) ==
            IF cmd.x = None \/ cmd.y = None THEN FALSE
            ELSE /\ Get(cmd.x) >= x1 /\ Get(cmd.x) <= x2
                 /\ Get(cmd.y) >= y1 /\ Get(cmd.y) <= y2
    IN  SelectSeq(cmds, Inside)

\* GcodeParser.getCommandsInRegion: the commands inside the rectangle, in
\* list order.  The corners are finite numbers.
GetCommandsInRegion(cmds, x1, y1, x2, y2) ==
    LET minX == IF x1 <= x2 THEN x1 ELSE x2
        maxX == IF x1 <= x2 THEN x2 ELSE x1
        minY == IF y1 <= y2 THEN y1 ELSE y2
        maxY == IF y1 <= y2 THEN y2 ELSE y1
        Inside(cmd) ==
            IF cmd.x = None \/ cmd.y = None THEN FALSE
            ELSE /\ Get(cmd.x) >= minX /\ Get(cmd.x) <= maxX
                 /\ Get(cmd.y) >= minY /\ Get(cmd.y) <= maxY
    IN  SelectSeq(cmds, Inside)

\* The extrema a bounding-box fold starts from.
NoExtrema ==
    [minX |-> Infinity, maxX |-> NegInfinity, minY |-> Infinity, maxY |-> NegInfinity,
     minZ |-> Infinity, maxZ |-> NegInfinity, hasCoordinates |-> FALSE]

\* One step of the fold of getBounds and calculateSelectionBounds: the
\* extrema after the command cmd.
Extend(acc, cmd) ==
    LET ax == IF cmd.x # None
              THEN [acc EXCEPT !.minX = MathMin(acc.minX, NumOf(Get(cmd.x))),
                               !.maxX = MathMax(acc.maxX, NumOf(Get(cmd.x))),
                               !.hasCoordinates = TRUE]
              ELSE acc
        ay == IF cmd.y # None
              THEN [ax EXCEPT !.minY = MathMin(ax.minY, NumOf(Get(cmd.y))),
                              !.maxY = MathMax(ax.maxY, NumOf(Get(cmd.y))),
                              !.hasCoordinates = TRUE]
              ELSE ax
    IN  IF cmd.z # None
        THEN [ay EXCEPT !.minZ = MathMin(ay.minZ, NumOf(Get(cmd.z))),
                        !.maxZ = MathMax(ay.maxZ, NumOf(Get(cmd.z))),
                        !.hasCoordinates = TRUE]
        ELSE ay

\* The returned box: an extremum still at its start value is reported as 0.
BoxOf(acc) ==
    [minX |-> IF StrictEquals(acc.minX, Infinity) THEN Zero(1) ELSE acc.minX,
     maxX |-> IF StrictEquals(acc.maxX, NegInfinity) THEN Zero(1) ELSE acc.maxX,
     minY |-> IF StrictEquals(acc.minY, Infinity) THEN Zero(1) ELSE acc.minY,
     maxY |-> IF StrictEquals(acc.maxY, NegInfinity) THEN Zero(1) ELSE acc.maxY,
     minZ |-> IF StrictEquals(acc.minZ, Infinity) THEN Zero(1) ELSE acc.minZ,
     maxZ |-> IF StrictEquals(acc.maxZ, NegInfinity) THEN Zero(1) ELSE acc.maxZ]

RECURSIVE ExtendAll(_, _, _)
ExtendAll(cmds, k, acc) ==
    IF k > Len(cmds) THEN acc ELSE ExtendAll(cmds, k + 1, Extend(acc, cmds[k]))

\* GcodeParser.getBounds: null (None) when no command has a coordinate.
GetBounds(cmds) ==
    LET acc == ExtendAll(cmds, 1, NoExtrema)
    IN  IF ~acc.hasCoordinates THEN None ELSE Some(BoxOf(acc))

\* selectedIndices.forEach of calculateSelectionBounds: an index without a
\* command (commands[index] is undefined) is passed over.
RECURSIVE ExtendSelected(_, _, _, _)
ExtendSelected(cmds, selectedIndices, k, acc) ==
    IF k > Len(selectedIndices) THEN acc
    ELSE LET index == selectedIndices[k]
         IN  ExtendSelected(cmds, selectedIndices, k + 1,
                            IF index >= 0 /\ index < Len(cmds)
                            THEN Extend(acc, cmds[index + 1]) ELSE acc)

\* calculateSelectionBounds with a seeded fault: the box of all commands.
CalculateBoundsOfAll(cmds, selectedIndices) ==
    IF Len(selectedIndices) = 0 THEN None
    ELSE Some(BoxOf(ExtendAll(cmds, 1, NoExtrema)))

\* TransformationUtils.calculateSelectionBounds.
CalculateSelectionBounds(cmds, selectedIndices) ==
    IF Len(selectedIndices) = 0 THEN None
    ELSE Some(BoxOf(ExtendSelected(cmds, selectedIndices, 1, NoExtrema)))

(***************************************************************************)
(* GcodeRenderer: bounds, viewport mapping, render.  A renderer is the     *)
(* record of its fields width and height (settings), bounds, scale,        *)
(* offsetX and offsetY; drawing on the canvas is not modelled.             *)
(***************************************************************************)
\* settings.padding
Padding == 40

\* The renderer after construction and updateSettings({width, height}).
NewRenderer(width, height) ==
    [width |-> width, height |-> height, bounds |-> None,
     scale |-> NumInt(1), offsetX |-> Zero(1), offsetY |-> Zero(1)]

\* One step of the fold of GcodeRenderer.calculateBounds.
ExtendXY(acc, cmd) ==
    LET ax == IF cmd.x # None
              THEN [acc EXCEPT !.minX = MathMin(acc.minX, NumOf(Get(cmd.x))),
                               !.maxX = MathMax(acc.maxX, NumOf(Get(cmd.x)))]
              ELSE acc
    IN  IF cmd.y # None
        THEN [ax EXCEPT !.minY = MathMin(ax.minY, NumOf(Get(cmd.y))),
                        !.maxY = MathMax(ax.maxY, NumOf(Get(cmd.y)))]
        ELSE ax

RECURSIVE ExtendXYAll(_, _, _)
ExtendXYAll(cmds, k, acc) ==
    IF k > Len(cmds) THEN acc ELSE ExtendXYAll(cmds, k + 1, ExtendXY(acc, cmds[k]))

\* GcodeRenderer.calculateBounds: this.bounds is assigned only when some
\* command has an x.
CalculateBounds(r, cmds) ==
    LET acc == ExtendXYAll(cmds, 1,
                   [minX |-> Infinity, maxX |-> NegInfinity,
                    minY |-> Infinity, maxY |-> NegInfinity])
    IN  IF ~StrictEquals(acc.minX, Infinity) THEN [r EXCEPT !.bounds = Some(acc)] ELSE r

\* calculateTransform with a seeded fault: the data is put at the padding,
\* not centred in the available area.
CalculateTransformUncentred(r) ==
    IF r.bounds = None THEN r
    ELSE LET b == Get(r.bounds)
             availableWidth  == Minus(NumInt(r.width), Times(NumInt(2), NumInt(Padding)))
             availableHeight == Minus(NumInt(r.height), Times(NumInt(2), NumInt(Padding)))
             dataWidth  == Minus(b.maxX, b.minX)
             dataHeight == Minus(b.maxY, b.minY)
         IN  IF StrictEquals(dataWidth, Zero(1)) \/ StrictEquals(dataHeight, Zero(1))
             THEN [r EXCEPT !.scale = NumInt(1),
                            !.offsetX = Over(NumInt(r.width), NumInt(2)),
                            !.offsetY = Over(NumInt(r.height), NumInt(2))]
             ELSE LET scale == Times(MathMin(Over(availableWidth, dataWidth),
                                             Over(availableHeight, dataHeight)), Rat(9, 10))
                  IN  [r EXCEPT !.scale = scale,
                                !.offsetX = Minus(NumInt(Padding), Times(b.minX, scale)),
                                !.offsetY = Minus(NumInt(Padding), Times(b.minY, scale))]

\* calculateTransform with a seeded fault: no branch for a zero span.
CalculateTransformDividing(r) ==
    IF r.bounds = None THEN r
    ELSE LET b == Get(r.bounds)
             availableWidth  == Minus(NumInt(r.width), Times(NumInt(2), NumInt(Padding)))
             availableHeight == Minus(NumInt(r.height), Times(NumInt(2), NumInt(Padding)))
             dataWidth  == Minus(b.maxX, b.minX)
             dataHeight == Minus(b.maxY, b.minY)
             scale == Times(MathMin(Over(availableWidth, dataWidth),
                                    Over(availableHeight, dataHeight)), Rat(9, 10))
         IN  [r EXCEPT
                !.scale = scale,
                !.offsetX = Minus(Plus(NumInt(Padding),
                                       Over(Minus(availableWidth, Times(dataWidth, scale)),
                                            NumInt(2))),
                                  Times(b.minX, scale)),
                !.offsetY = Minus(Plus(NumInt(Padding),
                                       Over(Minus(availableHeight, Times(dataHeight, scale)),
                                            NumInt(2))),
                                  Times(b.minY, scale))]

\* GcodeRenderer.calculateTransform.
CalculateTransform(r) ==
    IF r.bounds = None THEN r
    ELSE LET b == Get(r.bounds)
             availableWidth  == Minus(NumInt(r.width), Times(NumInt(2), NumInt(Padding)))
             availableHeight == Minus(NumInt(r.height), Times(NumInt(2), NumInt(Padding)))
             dataWidth  == Minus(b.maxX, b.minX)
             dataHeight == Minus(b.maxY, b.minY)
         IN  IF StrictEquals(dataWidth, Zero(1)) \/ StrictEquals(dataHeight, Zero(1))
             THEN [r EXCEPT !.scale = NumInt(1),
                            !.offsetX = Over(NumInt(r.width), NumInt(2)),
                            !.offsetY = Over(NumInt(r.height), NumInt(2))]
             ELSE LET scaleX == Over(availableWidth, dataWidth)
                      scaleY == Over(availableHeight, dataHeight)
                      scale  == Times(MathMin(scaleX, scaleY), Rat(9, 10))
                  IN  [r EXCEPT
                         !.scale = scale,
                         !.offsetX =
                            Minus(Plus(NumInt(Padding),
                                       Over(Minus(availableWidth, Times(dataWidth, scale)),
                                            NumInt(2))),
                                  Times(b.minX, scale)),
                         !.offsetY =
                            Minus(Plus(NumInt(Padding),
                                       Over(Minus(availableHeight, Times(dataHeight, scale)),
                                            NumInt(2))),
                                  Times(b.minY, scale))]

\* GcodeRenderer.render: nothing is recomputed for an empty list.
Render(r, cmds) ==
    IF Len(cmds) = 0 THEN r ELSE CalculateTransform(CalculateBounds(r, cmds))

\* GcodeRenderer.worldToScreen
WorldToScreen(r, x, y) ==
    [x |-> Plus(Times(x, r.scale), r.offsetX),
     y |-> Minus(NumInt(r.height), Plus(Times(y, r.scale), r.offsetY))]

\* screenToWorld with a seeded fault: the y axis is not flipped back.
ScreenToWorldUnflipped(r, screenX, screenY) ==
    [x |-> Over(Minus(screenX, r.offsetX), r.scale),
     y |-> Over(Minus(screenY, r.offsetY), r.scale)]

\* GcodeRenderer.screenToWorld
ScreenToWorld(r, screenX, screenY) ==
    [x |-> Over(Minus(screenX, r.offsetX), r.scale),
     y |-> Over(Minus(Minus(NumInt(r.height), screenY), r.offsetY), r.scale)]

(***************************************************************************)
(* VisualizationPanel: the visibility filter and region selection.         *)
(***************************************************************************)
\* The commands renderVisualization hands to render.
VisibleCommands(cmds, visible) ==
    LET Shown(cmd) == IF cmd.z = None THEN TRUE ELSE Get(cmd.z) \in visible
    IN  SelectSeq(cmds, Shown)

\* The indices handleMouseUp collects: the commands of the whole list with
\* x and y inside the rectangle spanned by two world points.
RECURSIVE CollectIndices(_, _, _, _, _, _, _)
CollectIndices(cmds, k, minX, maxX, minY, maxY, selectedIndices) ==
    IF k > Len(cmds) THEN selectedIndices
    ELSE LET cmd == cmds[k]
             in  == /\ cmd.x # None /\ cmd.y # None
                    /\ GreaterEq(NumOf(Get(cmd.x)), minX) /\ LessEq(NumOf(Get(cmd.x)), maxX)
                    /\ GreaterEq(NumOf(Get(cmd.y)), minY) /\ LessEq(NumOf(Get(cmd.y)), maxY)
         IN  CollectIndices(cmds, k + 1, minX, maxX, minY, maxY,
                            IF in THEN Append(selectedIndices, k - 1) ELSE selectedIndices)

SelectInRectangle(cmds, worldStart, worldEnd) ==
    CollectIndices(cmds, 1,
                   MathMin(worldStart.x, worldEnd.x), MathMax(worldStart.x, worldEnd.x),
                   MathMin(worldStart.y, worldEnd.y), MathMax(worldStart.y, worldEnd.y),
                   <<>>)

(***************************************************************************)
(* Input catalogues.                                                       *)
(***************************************************************************)
\* '': a blank line
LineBlank == <<>>

\* ' \t': white space only
LineSpaces == <<" ", "\t">>

\* '; hello': the comment line of the specification's scenario
LineComment == <<";", " ", "h", "e", "l", "l", "o">>

\* ';hello ': a comment with no space after the marker
LineCommentTight == <<";", "h", "e", "l", "l", "o", " ">>

\* ';': the marker alone
LineCommentEmpty == <<";">>

\* 'G1 X10 Y0 F200': the code line of the specification's scenario
LineMove == <<"G", "1", " ", "X", "1", "0", " ", "Y", "0", " ", "F", "2", "0", "0">>

\* '  g1 x1.5 y-2 ; cut ; deep ': lower case, indented, an inline comment holding a second marker
LineLowerInline ==
    <<" ", " ", "g", "1", " ", "x", "1", ".", "5", " ", "y", "-", "2", " ",
      ";", " ", "c", "u", "t", " ", ";", " ", "d", "e", "e", "p", " ">>

\* 'X10 Y5': parameters without an instruction
LineNoInstruction == <<"X", "1", "0", " ", "Y", "5">>

\* 'G ; x': an instruction letter without digits, then a comment
LineLetterOnly == <<"G", " ", ";", " ", "x">>

\* 'N10 G1 X5': an instruction behind a line number word
LineNumbered == <<"N", "1", "0", " ", "G", "1", " ", "X", "5">>

\* 'G1 X1 X2 Y.5 Z-': X twice, malformed Y and Z
LineDuplicate ==
    <<"G", "1", " ", "X", "1", " ", "X", "2", " ", "Y", ".", "5", " ", "Z",
      "-">>

\* 'M3 S1000': sample.gcode line 8
LineSpindle == <<"M", "3", " ", "S", "1", "0", "0", "0">>

\* 'G0 Z0.2 F800': sample.gcode line 11
LineZOnly == <<"G", "0", " ", "Z", "0", ".", "2", " ", "F", "8", "0", "0">>

\* 'G1 X1 Y1 E1.2346': an extrusion value of four decimals
LineExtrude ==
    <<"G", "1", " ", "X", "1", " ", "Y", "1", " ", "E", "1", ".", "2", "3",
      "4", "6">>

\* 'G2 X25 Y25 I2.5 J2.5 F150': the clockwise arc of sample.gcode line 37
LineArc ==
    <<"G", "2", " ", "X", "2", "5", " ", "Y", "2", "5", " ", "I", "2", ".", "5",
      " ", "J", "2", ".", "5", " ", "F", "1", "5", "0">>

\* 'G1 X1 Y1 ;': code followed by an empty comment
LineEmptyInline == <<"G", "1", " ", "X", "1", " ", "Y", "1", " ", ";">>

\* 'T1': a tool change: T is an instruction letter and a parameter letter
LineTool == <<"T", "1">>

\* 'G1 X1.2346 Y-2 Z0.4 F200.5 E1.2346 S1000 ; cut': every parameter, a comment
LineFull ==
    <<"G", "1", " ", "X", "1", ".", "2", "3", "4", "6", " ", "Y", "-", "2",
      " ", "Z", "0", ".", "4", " ", "F", "2", "0", "0", ".", "5", " ", "E",
      "1", ".", "2", "3", "4", "6", " ", "S", "1", "0", "0", "0", " ", ";",
      " ", "c", "u", "t">>

\* 'G1 X5': X without Y
LineXOnly == <<"G", "1", " ", "X", "5">>

\* 'g1 y3': Y without X, lower case
LineYOnly == <<"g", "1", " ", "y", "3">>

\* 'G1 X2 Y4 Z0.4': a point on a layer
LinePointZ == <<"G", "1", " ", "X", "2", " ", "Y", "4", " ", "Z", "0", ".", "4">>

\* 'G1 X10.00005 Y0.0007': coordinates with five decimals
LineFine ==
    <<"G", "1", " ", "X", "1", "0", ".", "0", "0", "0", "0", "5", " ", "Y", "0", ".", "0", "0", "0", "7">>

\* 'G1 X1e-05 Y2': a coordinate written with an exponent
LineExponent == <<"G", "1", " ", "X", "1", "e", "-", "0", "5", " ", "Y", "2">>

\* Lines the parser is exercised on.
Lines ==
    {LineBlank, LineSpaces, LineComment, LineCommentTight, LineCommentEmpty,
     LineMove, LineLowerInline, LineNoInstruction, LineLetterOnly, LineNumbered,
     LineDuplicate, LineSpindle, LineZOnly, LineExtrude, LineEmptyInline,
     LineTool, LineFull, LineXOnly, LineYOnly, LineExponent}

\* Every text of 1..MaxLines physical lines over a set of lines.
TextsOver(ls) == {Join(t) : t \in UNION {[1..n -> ls] : n \in 1..MaxLines}}

Texts == TextsOver(Lines)

Units == {"metric", "imperial"}

\* The transformation a fresh TransformationPanel holds.
DefaultTransformation ==
    [translateX |-> 0, translateY |-> 0, translateZ |-> 0,
     rotation |-> 0, scaleX |-> Whole(1), scaleY |-> Whole(1)]

(***************************************************************************)
(* The editor: loading a file.                                             *)
(***************************************************************************)
NoFile == <<"?">>

\* No rectangle is being dragged.
NoDrag == [isSelecting |-> FALSE, selectionStart |-> None, selectionEnd |-> None]

\* Width and height of the drawing surface, in logical pixels: a common one,
\* one exactly as wide as the two paddings and one narrower than that.
SurfaceSizes == {<<200, 160>>, <<80, 160>>, <<60, 160>>}

\* MemStorage after construction.
NewMemStorage == [files |-> <<>>, currentId |-> 1]

\* The server has stored nothing, the editor holds no stored file and no
\* request is under way.
IdleServer ==
    /\ storage = NewMemStorage
    /\ currentFile = None
    /\ network = {}
    /\ lastResponse = None

\* The visualization panel before anything was rendered.
IdleView ==
    /\ renderer = NewRenderer(200, 160)
    /\ drag = NoDrag
    /\ rendered = None

InitParse ==
    /\ content = NoFile
    /\ units = "metric"
    /\ parsedWith = "metric"
    /\ commands = <<>>
    /\ selectedLines = {}
    /\ transformation = DefaultTransformation
    /\ call = None
    /\ hasUnsavedChanges = FALSE
    /\ egress = None
    /\ visibleZHeights = {}
    /\ IdleView
    /\ IdleServer

\* onUnitsChange = setUnits: the units toggle of the transformation panel.
SetUnits(u) ==
    /\ units' = u
    /\ UNCHANGED <<content, parsedWith, commands, selectedLines, transformation, call,
                   hasUnsavedChanges, egress>>
    /\ UNCHANGED viewVars
    /\ UNCHANGED serverVars

\* uploadMutation.onSuccess for a file whose content is text.  A session of
\* this specification loads one file.
UploadSuccess(text) ==
    /\ content = NoFile
    /\ content' = text
    /\ commands' = Parse(text)
    /\ parsedWith' = units
    /\ visibleZHeights' = GetZHeights(Parse(text))
    /\ selectedLines' = {}
    /\ hasUnsavedChanges' = FALSE
    /\ UNCHANGED <<units, transformation, call, egress, renderer, drag, rendered>>
    /\ UNCHANGED serverVars

NextParse ==
    \/ \E u \in Units : SetUnits(u)
    \/ \E text \in Texts : UploadSuccess(text)

SpecParse == InitParse /\ [][NextParse]_vars

(***************************************************************************)
(* The transformer on every input of the catalogues.                       *)
(***************************************************************************)
\* Lines a transformation is applied to.
MotionLines ==
    {LineMove, LineComment, LineZOnly, LineFull, LineXOnly, LineYOnly,
     LineEmptyInline, LineSpindle, LineArc}

TranslateX5 == [DefaultTransformation EXCEPT !.translateX = Whole(5)]

Rotate90 == [DefaultTransformation EXCEPT !.rotation = Whole(90)]

TranslateZ1 == [DefaultTransformation EXCEPT !.translateZ = Whole(1)]

\* Every parameter set: a quarter turn, scaling by (2, 3), translation by
\* (1.0002, -2, 0.4).
Combined ==
    [translateX |-> Dec4(10002), translateY |-> Whole(-2), translateZ |-> Dec4(4000),
     rotation |-> Whole(90), scaleX |-> Whole(2), scaleY |-> Whole(3)]

Transformations == {DefaultTransformation, TranslateX5, Rotate90, TranslateZ1, Combined}

\* Index sets handed to the transformer: every set of indices 0..MaxLines
\* (MaxLines itself is out of range for every text) and a negative index.
SelectionSets == (SUBSET (0..MaxLines)) \cup {{-1}}

InitApply ==
    /\ content \in TextsOver(MotionLines)
    /\ units = "metric"
    /\ parsedWith = "metric"
    /\ commands = Parse(content)
    /\ selectedLines \in SelectionSets
    /\ transformation \in Transformations
    /\ call = None
    /\ hasUnsavedChanges = FALSE
    /\ egress = None
    /\ visibleZHeights = GetZHeights(commands)
    /\ IdleView
    /\ IdleServer

\* One call applyTransformationToRegion(commands, selectedIndices,
\* transformation) on the drawn arguments; commands then holds the returned
\* list.
ApplyTransformationCall ==
    /\ call = None
    /\ LET heap0 == HeapOf(commands)
           sel   == ArrayFrom(selectedLines)
           r     == ApplyTransformationToRegion(heap0, 1, sel, transformation)
       IN  /\ call' = Some([heap0 |-> heap0, commandsRef |-> 1,
                            selectedIndices |-> sel, t |-> transformation,
                            heap1 |-> r.heap, result |-> r.ref])
           /\ commands' = ValuesOf(r.heap, r.ref)
    /\ UNCHANGED <<content, units, parsedWith, selectedLines, transformation,
                   hasUnsavedChanges, egress>>
    /\ UNCHANGED viewVars
    /\ UNCHANGED serverVars

NextApply == ApplyTransformationCall

SpecApply == InitApply /\ [][NextApply]_vars

(***************************************************************************)
(* Region selection and selection bounds on every input of the catalogues. *)
(***************************************************************************)
\* Lines whose commands have both, one or none of x and y, and a z or none.
BoundsLines == {LineMove, LinePointZ, LineZOnly, LineXOnly, LineYOnly, LineComment}

\* Rectangles (x1, y1, x2, y2) with corners on the points (2, 4) and (10, 0)
\* of the catalogue, given from either corner.
Regions ==
    {<<x1, y[1], x2, y[2]>> :
        x1 \in {Whole(2), Whole(10)}, x2 \in {Whole(2), Whole(10)},
        y \in {<<0, Whole(4)>>, <<Whole(4), 0>>}}

InitBounds ==
    /\ content \in TextsOver(BoundsLines)
    /\ units = "metric"
    /\ parsedWith = "metric"
    /\ commands = Parse(content)
    /\ selectedLines \in SelectionSets
    /\ transformation = DefaultTransformation
    /\ call = None
    /\ hasUnsavedChanges = FALSE
    /\ egress = None
    /\ visibleZHeights = GetZHeights(commands)
    /\ IdleView
    /\ IdleServer

\* One call GcodeParser.getCommandsInRegion(commands, x1, y1, x2, y2).
GetCommandsInRegionCall(region) ==
    /\ call = None
    /\ call' = Some([op |-> "getCommandsInRegion", region |-> region,
                     result |-> GetCommandsInRegion(commands, region[1], region[2],
                                                    region[3], region[4])])
    /\ UNCHANGED editorVars
    /\ UNCHANGED viewVars
    /\ UNCHANGED serverVars

\* The region selection of handleMouseUp for the world points (x1, y1) and
\* (x2, y2).
SelectInRectangleCall(region) ==
    /\ call = None
    /\ call' = Some([op |-> "handleMouseUp", region |-> region,
                     result |-> SelectInRectangle(commands,
                                    [x |-> NumOf(region[1]), y |-> NumOf(region[2])],
                                    [x |-> NumOf(region[3]), y |-> NumOf(region[4])])])
    /\ UNCHANGED editorVars
    /\ UNCHANGED viewVars
    /\ UNCHANGED serverVars

\* One call calculateSelectionBounds(commands, Array.from(selectedLines)).
CalculateSelectionBoundsCall ==
    /\ call = None
    /\ call' = Some([op |-> "calculateSelectionBounds",
                     result |-> CalculateSelectionBounds(commands, ArrayFrom(selectedLines))])
    /\ UNCHANGED editorVars
    /\ UNCHANGED viewVars
    /\ UNCHANGED serverVars

NextBounds ==
    \/ \E region \in Regions : GetCommandsInRegionCall(region)
    \/ \E region \in Regions : SelectInRectangleCall(region)
    \/ CalculateSelectionBoundsCall

SpecBounds == InitBounds /\ [][NextBounds]_vars

(***************************************************************************)
(* Claims about the parser, checked under SpecParse.                       *)
(***************************************************************************)
Loaded == content # NoFile

PhysicalLines == Split(content)

\* The indices of the commands that came from physical line i.
CommandsOfLine(i) == {k \in 1..Len(commands) : commands[k].line = i}

\* The position of the first comment marker of a string, 0 if it has none.
FirstMarker(t) ==
    IF \A k \in 1..Len(t) : t[k] # ";" THEN 0
    ELSE CHOOSE k \in 1..Len(t) : t[k] = ";" /\ \A j \in 1..(k - 1) : t[j] # ";"

\* The code portion of a line: its text before the first marker, trimmed.
CodePortion(line) ==
    LET t == Trim(line)
    IN  IF FirstMarker(t) = 0 THEN t ELSE Trim(SubSeq(t, 1, FirstMarker(t) - 1))

\* The text behind the first marker of a line, trimmed.
CommentPortion(line) ==
    LET t == Trim(line) IN Trim(SubSeq(t, FirstMarker(t) + 1, Len(t)))

\* The instruction grammar: G, M or T in either case, then a digit.
BeginsWithInstruction(code) ==
    /\ Len(code) >= 2
    /\ code[1] \in {"G", "M", "T", "g", "m", "t"}
    /\ code[2] \in {"0", "1", "2", "3", "4", "5", "6", "7", "8", "9"}

\* A valid instruction line: its code portion begins with an instruction.
ValidInstructionLine(line) == BeginsWithInstruction(CodePortion(line))

IsCommentLine(line) == Trim(line) # <<>> /\ Trim(line)[1] = ";"

\* C1: round-trip stability.  For a text of valid instruction lines, parsing
\* the reconstruction of the parsed commands gives the same commands again:
\* the same number, and per command the same line, command, x, y, z, f, e, s,
\* comment and raw (numbers equal, hence within 0.001).
C1_RoundTrip ==
    (Loaded /\ \A i \in 1..Len(PhysicalLines) : ValidInstructionLine(PhysicalLines[i]))
        => Parse(ReconstructGcodeContent(commands)) = commands

\* C1 witness: two valid instruction lines are loaded, one with an inline
\* comment and one with every parameter.
C1_Witness ==
    /\ content = Join(<<LineLowerInline, LineFull>>)
    /\ Len(commands) = 2
    /\ commands[1].comment = Some(<<"c", "u", "t", " ", ";", " ", "d", "e", "e", "p">>)
    /\ commands[2].e = Some(Dec4(12346))

\* The number v inches in millimetres.
InchesToMillimetres(v) == (v * 254) \div 10

ConvertLinear(o) == IF o = None THEN None ELSE Some(InchesToMillimetres(Get(o)))

\* C5 (as stated): a file parsed while units = imperial has every linear
\* value (x, y, z, e) stored multiplied by 25.4, f and s stored as written; a
\* file parsed while units = metric has every value stored as written.
C5_UnitPolicy ==
    Loaded =>
        LET written == Parse(content)
        IN  /\ Len(commands) = Len(written)
            /\ \A k \in 1..Len(commands) :
                 /\ commands[k].f = written[k].f
                 /\ commands[k].s = written[k].s
                 /\ IF parsedWith = "imperial"
                    THEN /\ commands[k].x = ConvertLinear(written[k].x)
                         /\ commands[k].y = ConvertLinear(written[k].y)
                         /\ commands[k].z = ConvertLinear(written[k].z)
                         /\ commands[k].e = ConvertLinear(written[k].e)
                    ELSE commands[k] = written[k]

\* C9 (as stated): a line that is blank after trimming, or whose code portion
\* does not begin with an instruction, produces no command; every other line
\* produces exactly one; there are never more commands than lines.
C9_Original ==
    Loaded =>
        /\ Len(commands) <= Len(PhysicalLines)
        /\ \A i \in 1..Len(PhysicalLines) :
             IF \/ Trim(PhysicalLines[i]) = <<>>
                \/ ~BeginsWithInstruction(CodePortion(PhysicalLines[i]))
             THEN CommandsOfLine(i) = {}
             ELSE Cardinality(CommandsOfLine(i)) = 1

\* C9 (amended): a line that is blank after trimming, or that does not start
\* with the comment marker and whose code portion does not begin with an
\* instruction, produces no command; every other line (a comment line
\* included) produces exactly one; there are never more commands than lines.
C9_PermissiveParse ==
    Loaded =>
        /\ Len(commands) <= Len(PhysicalLines)
        /\ \A i \in 1..Len(PhysicalLines) :
             IF \/ Trim(PhysicalLines[i]) = <<>>
                \/ /\ ~IsCommentLine(PhysicalLines[i])
                   /\ ~BeginsWithInstruction(CodePortion(PhysicalLines[i]))
             THEN CommandsOfLine(i) = {}
             ELSE Cardinality(CommandsOfLine(i)) = 1

\* C9 witness: a text whose first line is dropped (an instruction letter
\* without digits) and whose second line is a comment line that is kept.
C9_Witness ==
    /\ content = Join(<<LineLetterOnly, LineComment>>)
    /\ Len(commands) = 1
    /\ commands[1].line = 2

\* C10: comment handling.  A line starting with the marker yields exactly one
\* command, with mnemonic '' and the trimmed text behind the marker as its
\* comment; a marker behind code yields no entry of its own and sets the
\* comment of the line's command to the trimmed text behind the first marker;
\* a code line without a marker has no comment.  The two scenarios of the
\* specification parse as it states.
C10_CommentHandling ==
    Loaded =>
        /\ \A i \in 1..Len(PhysicalLines) :
             LET line == PhysicalLines[i]
             IN  /\ Cardinality(CommandsOfLine(i)) <= 1
                 /\ IsCommentLine(line) =>
                      \E k \in CommandsOfLine(i) :
                          /\ commands[k].command = <<>>
                          /\ commands[k].comment = Some(Trim(Tail(Trim(line))))
                 /\ \A k \in CommandsOfLine(i) :
                      ~IsCommentLine(line) =>
                          /\ commands[k].command # <<>>
                          /\ commands[k].comment =
                               IF FirstMarker(Trim(line)) = 0 THEN None
                               ELSE Some(CommentPortion(line))
        /\ content = LineMove =>
             commands = <<[line |-> 1, command |-> <<"G", "1">>,
                           x |-> Some(Whole(10)), y |-> Some(0), z |-> None,
                           f |-> Some(Whole(200)), e |-> None, s |-> None,
                           comment |-> None, raw |-> LineMove]>>
        /\ content = LineComment =>
             commands = <<[line |-> 1, command |-> <<>>,
                           x |-> None, y |-> None, z |-> None,
                           f |-> None, e |-> None, s |-> None,
                           comment |-> Some(<<"h", "e", "l", "l", "o">>),
                           raw |-> LineComment]>>

\* C10 witness: a comment line followed by a code line whose inline comment
\* holds a second marker.
C10_Witness ==
    /\ content = Join(<<LineCommentTight, LineLowerInline>>)
    /\ Len(commands) = 2
    /\ commands[1].command = <<>>
    /\ commands[1].comment = Some(<<"h", "e", "l", "l", "o">>)
    /\ commands[2].comment = Some(<<"c", "u", "t", " ", ";", " ", "d", "e", "e", "p">>)

(***************************************************************************)
(* Claims about the transformer, checked under SpecApply.                  *)
(***************************************************************************)
Called == call # None

TheCall == Get(call)

\* Number of entries of the list handed to the call.
InputLength == Len(TheCall.heap0.arrs[TheCall.commandsRef])

\* References and values of the entry at 1-based position i, in the list
\* handed to the call (as it was before the call) and in the list returned.
InputRef(i) == TheCall.heap0.arrs[TheCall.commandsRef][i]
ResultRef(i) == TheCall.heap1.arrs[TheCall.result][i]
Before(i) == TheCall.heap0.objs[InputRef(i)]
After(i) == TheCall.heap1.objs[ResultRef(i)]

\* Position i (1-based) is selected: index i - 1 is among the indices.
IsSelected(i) == \E k \in 1..Len(TheCall.selectedIndices) : TheCall.selectedIndices[k] = i - 1

HasXY(cmd) == cmd.x # None /\ cmd.y # None

\* The nearest multiple of 0.001.
Round3(v) ==
    LET step == Unit \div 1000
        n    == (Abs(v) + (step \div 2)) \div step
    IN  IF v < 0 THEN -(n * step) ELSE n * step

\* Rotation by t.rotation about the origin, then scaling, then translation.
RotateScaleTranslate(x, y, t) ==
    <<Mul(Mul(x, Cosine(t.rotation)) - Mul(y, Sine(t.rotation)), t.scaleX) + t.translateX,
      Mul(Mul(x, Sine(t.rotation)) + Mul(y, Cosine(t.rotation)), t.scaleY) + t.translateY>>

\* An empty comment and no comment are not told apart.
SameComment(c, d) == (IF c = Some(<<>>) THEN None ELSE c) = (IF d = Some(<<>>) THEN None ELSE d)

\* C2 (as stated): raw and the structured fields of every command agree:
\* parsing a command's raw gives one command with the same mnemonic, x, y, z,
\* f, e, s and comment (an empty comment counting as no comment).
C2_RawAgreesWithFields ==
    \A k \in 1..Len(commands) :
        LET again == Parse(commands[k].raw)
        IN  /\ Len(again) = 1
            /\ again[1].command = commands[k].command
            /\ again[1].x = commands[k].x
            /\ again[1].y = commands[k].y
            /\ again[1].z = commands[k].z
            /\ again[1].f = commands[k].f
            /\ again[1].e = commands[k].e
            /\ again[1].s = commands[k].s
            /\ SameComment(again[1].comment, commands[k].comment)

\* C3 (as stated): the identity transformation (rotation 0, scale 1, 1,
\* translation 0, 0, 0) leaves x, y, z and raw of every command unchanged.
C3_IdentityTransform ==
    (Called /\ TheCall.t = DefaultTransformation) =>
        \A i \in 1..InputLength :
            /\ After(i).x = Before(i).x
            /\ After(i).y = Before(i).y
            /\ After(i).z = Before(i).z
            /\ After(i).raw = Before(i).raw

\* C4: the call is pure and frame-preserving.  It returns a new list of the
\* same length and order; the list it was handed and every command object
\* that existed before the call are as they were; an entry whose index is not
\* selected is the very object of the input (so is every entry when only
\* out-of-range indices are selected); only selected entries are replaced.
C4_PureAndFramePreserving ==
    Called =>
        /\ TheCall.result # TheCall.commandsRef
        /\ TheCall.heap1.arrs[TheCall.commandsRef] = TheCall.heap0.arrs[TheCall.commandsRef]
        /\ \A o \in 1..Len(TheCall.heap0.objs) : TheCall.heap1.objs[o] = TheCall.heap0.objs[o]
        /\ Len(TheCall.heap1.arrs[TheCall.result]) = InputLength
        /\ Len(commands) = InputLength
        /\ \A i \in 1..InputLength :
             /\ After(i).line = Before(i).line
             /\ commands[i] = After(i)
             /\ ~IsSelected(i) => ResultRef(i) = InputRef(i)
             /\ ResultRef(i) # InputRef(i) => ResultRef(i) > Len(TheCall.heap0.objs)

\* C4 witness: a call on two commands with index 0 and the out-of-range index
\* 2 selected: entry 0 is replaced by a new object, entry 1 is kept.
C4_Witness ==
    /\ Called
    /\ InputLength = 2
    /\ TheCall.selectedIndices = <<0, 2>>
    /\ ResultRef(1) # InputRef(1)
    /\ ResultRef(2) = InputRef(2)

\* C6: for every selected command with x and y, the new x and y are the old
\* ones rotated about the origin, then scaled, then translated, rounded to 3
\* decimals; the new z is the old z plus translateZ, rounded to 3 decimals, if
\* z is defined.  (10, 0) turned by 90 degrees is (0, 10); (10, 0) translated
\* by 5 along X is (15, 0).
C6_TransformFormula ==
    Called =>
        \A i \in 1..InputLength :
            (IsSelected(i) /\ HasXY(Before(i))) =>
                LET x  == Get(Before(i).x)
                    y  == Get(Before(i).y)
                    xy == RotateScaleTranslate(x, y, TheCall.t)
                IN  /\ After(i).x = Some(Round3(xy[1]))
                    /\ After(i).y = Some(Round3(xy[2]))
                    /\ After(i).z = IF Before(i).z = None THEN None
                                    ELSE Some(Round3(Get(Before(i).z) + TheCall.t.translateZ))
                    /\ (x = Whole(10) /\ y = 0 /\ TheCall.t = Rotate90) =>
                         (After(i).x = Some(0) /\ After(i).y = Some(Whole(10)))
                    /\ (x = Whole(10) /\ y = 0 /\ TheCall.t = TranslateX5) =>
                         (After(i).x = Some(Whole(15)) /\ After(i).y = Some(0))

\* C6 witness: the command of LineFull (x = 1.2346, y = -2, z = 0.4) under
\* the combined transformation becomes x = 5, y = 1.704, z = 0.8.
C6_Witness ==
    /\ Called
    /\ TheCall.t = Combined
    /\ IsSelected(1)
    /\ Before(1).x = Some(Dec4(12346))
    /\ Before(1).y = Some(Whole(-2))
    /\ After(1).x = Some(Whole(5))
    /\ After(1).y = Some(Dec4(17040))
    /\ After(1).z = Some(Dec4(8000))

\* 'G1 X15.000 Y0.000 F200'
RawMoveTranslated ==
    <<"G", "1", " ", "X", "1", "5", ".", "0", "0", "0", " ", "Y", "0", ".", "0", "0", "0",
      " ", "F", "2", "0", "0">>

\* 'G1 X5.000 Y1.704 Z0.800 F200.5 E1.235 S1000 ; cut'
RawFullCombined ==
    <<"G", "1", " ", "X", "5", ".", "0", "0", "0", " ", "Y", "1", ".", "7", "0", "4",
      " ", "Z", "0", ".", "8", "0", "0", " ", "F", "2", "0", "0", ".", "5",
      " ", "E", "1", ".", "2", "3", "5", " ", "S", "1", "0", "0", "0",
      " ", ";", " ", "c", "u", "t">>

\* The word made of a letter and a text, behind one space; nothing if absent.
Word(letter, text) == IF text = None THEN <<>> ELSE <<" ", letter>> \o Get(text)

Fixed3(o) == IF o = None THEN None ELSE Some(ToFixed3(Get(o)))

Plain(o) == IF o = None THEN None ELSE Some(NumberToString(Get(o)))

\* C7: the raw of every transformed command is the mnemonic followed by the
\* words X, Y, Z (3 decimals, Z only if defined), F (as a plain number), E (3
\* decimals), S (as a plain number), each behind one space and only if
\* defined, then ' ; ' and the comment if the command has a comment that is
\* not empty.  G1 X10 Y0 F200 translated by 5 along X becomes
\* 'G1 X15.000 Y0.000 F200'.
C7_RawFormat ==
    Called =>
        \A i \in 1..InputLength :
            (IsSelected(i) /\ HasXY(Before(i))) =>
                LET b  == Before(i)
                    xy == RotateScaleTranslate(Get(b.x), Get(b.y), TheCall.t)
                    z  == IF b.z = None THEN None ELSE Some(Get(b.z) + TheCall.t.translateZ)
                IN  /\ After(i).raw =
                         b.command
                         \o Word("X", Fixed3(Some(xy[1])))
                         \o Word("Y", Fixed3(Some(xy[2])))
                         \o Word("Z", Fixed3(z))
                         \o Word("F", Plain(b.f))
                         \o Word("E", Fixed3(b.e))
                         \o Word("S", Plain(b.s))
                         \o (IF b.comment = None \/ b.comment = Some(<<>>) THEN <<>>
                             ELSE <<" ", ";", " ">> \o Get(b.comment))
                    /\ (b.raw = LineMove /\ TheCall.t = TranslateX5) =>
                         After(i).raw = RawMoveTranslated
                    /\ (b.raw = LineFull /\ TheCall.t = Combined) =>
                         After(i).raw = RawFullCombined

\* C7 witness: LineFull, which has every word and a comment, transformed.
C7_Witness ==
    /\ Called
    /\ TheCall.t = Combined
    /\ IsSelected(1)
    /\ Before(1).raw = LineFull
    /\ After(1).raw = RawFullCombined

\* C8: a selected command that lacks x or lacks y comes back untouched: the
\* same object, with the same x, y, z and raw, under every transformation,
\* one with translateZ # 0 included.
C8_MissingCoordinatesUntouched ==
    Called =>
        \A i \in 1..InputLength :
            (IsSelected(i) /\ ~HasXY(Before(i))) =>
                /\ ResultRef(i) = InputRef(i)
                /\ After(i) = Before(i)
                /\ commands[i].x = Before(i).x
                /\ commands[i].y = Before(i).y
                /\ commands[i].z = Before(i).z
                /\ commands[i].raw = Before(i).raw

\* C8 witness: a Z-only command and a comment-only command, both selected,
\* under a translation along Z.
C8_Witness ==
    /\ Called
    /\ content = Join(<<LineZOnly, LineComment>>)
    /\ TheCall.selectedIndices = <<0, 1>>
    /\ TheCall.t = TranslateZ1
    /\ commands[1].z = Some(Dec4(2000))
    /\ commands[2].command = <<>>

(***************************************************************************)
(* Line numbering of the parser, checked under SpecParse.                  *)
(***************************************************************************)
\* The physical lines that yield a command: comment lines and lines whose
\* code portion begins with an instruction.
KeptLines ==
    {i \in 1..Len(PhysicalLines) :
        IsCommentLine(PhysicalLines[i]) \/ ValidInstructionLine(PhysicalLines[i])}

\* C18: line numbering.  Every command carries as line the 1-based position
\* of the physical line it was parsed from, counted before blank and
\* unrecognized lines are dropped: its raw is that line trimmed, line values
\* increase strictly and lie in 1..number of physical lines, and the
\* positions of dropped lines are missing from them.
C18_LineNumbering ==
    Loaded =>
        /\ \A k \in 1..Len(commands) :
              /\ commands[k].line \in 1..Len(PhysicalLines)
              /\ commands[k].raw = Trim(PhysicalLines[commands[k].line])
        /\ \A k \in 1..(Len(commands) - 1) : commands[k].line < commands[k + 1].line
        /\ {commands[k].line : k \in 1..Len(commands)} = KeptLines

\* C18 witness: a blank first line is dropped and the command of the second
\* line is numbered 2.
C18_Witness ==
    /\ content = Join(<<LineBlank, LineMove>>)
    /\ Len(commands) = 1
    /\ commands[1].line = 2

(***************************************************************************)
(* Region selection and selection bounds, checked under SpecBounds.        *)
(***************************************************************************)
CalledOp(op) == call # None /\ Get(call).op = op

\* The command lies in the rectangle with corners (x1, y1) and (x2, y2),
\* whichever corner is given first.
InRegion(cmd, region) ==
    /\ cmd.x # None /\ cmd.y # None
    /\ \/ region[1] <= Get(cmd.x) /\ Get(cmd.x) <= region[3]
       \/ region[3] <= Get(cmd.x) /\ Get(cmd.x) <= region[1]
    /\ \/ region[2] <= Get(cmd.y) /\ Get(cmd.y) <= region[4]
       \/ region[4] <= Get(cmd.y) /\ Get(cmd.y) <= region[2]

Swapped(region) == <<region[3], region[4], region[1], region[2]>>

\* C11: region selection.  A command is selected if and only if it has x and
\* y and both lie within the rectangle, bounds included, whichever corner is
\* given first: by getCommandsInRegion (which returns the commands, in list
\* order) and by the pointer release (which returns their indices).  The
\* rectangle given with swapped corners selects the same; a command lacking
\* x or y is never selected.
C11_RegionSelection ==
    /\ CalledOp("getCommandsInRegion") =>
          LET region == Get(call).region
              result == Get(call).result
              picked == {k \in 1..Len(commands) : InRegion(commands[k], region)}
          IN  /\ Len(result) = Cardinality(picked)
              /\ \A k \in 1..Len(commands) :
                    (\E j \in 1..Len(result) : result[j] = commands[k]) <=> k \in picked
              /\ \A j \in 1..Len(result) : result[j].x # None /\ result[j].y # None
              /\ result = GetCommandsInRegion(commands, Swapped(region)[1], Swapped(region)[2],
                                              Swapped(region)[3], Swapped(region)[4])
    /\ CalledOp("handleMouseUp") =>
          LET region == Get(call).region
              result == Get(call).result
          IN  /\ {result[j] : j \in 1..Len(result)}
                    = {k - 1 : k \in {i \in 1..Len(commands) : InRegion(commands[i], region)}}
              /\ Len(result) = Cardinality({result[j] : j \in 1..Len(result)})

\* C11 witness: a rectangle given from its upper right corner selects the
\* point on its opposite corner and not the command without y inside its
\* x range.
C11_Witness ==
    /\ CalledOp("getCommandsInRegion")
    /\ content = Join(<<LineXOnly, LinePointZ>>)
    /\ Get(call).region = <<Whole(10), Whole(4), Whole(2), 0>>
    /\ Get(call).result = <<commands[2]>>

\* The least and the greatest of a non-empty set of finite numbers.
Least(vals) == CHOOSE v \in vals : \A w \in vals : LessEq(v, w)
Greatest(vals) == CHOOSE v \in vals : \A w \in vals : LessEq(w, v)

\* The selected commands: those at the indices of selectedLines that the
\* list has.
SelectedCommands == {commands[i + 1] : i \in {j \in selectedLines : j >= 0 /\ j < Len(commands)}}

\* C14: selection bounds.  calculateSelectionBounds returns null exactly for
\* the empty index set; otherwise, per axis, the least and greatest value
\* over the selected commands that have the axis, indices without a command
\* and unselected commands left out, and 0 for both when no selected command
\* has the axis.
C14_SelectionBounds ==
    CalledOp("calculateSelectionBounds") =>
        LET result == Get(call).result
            xs == {NumOf(Get(c.x)) : c \in {d \in SelectedCommands : d.x # None}}
            ys == {NumOf(Get(c.y)) : c \in {d \in SelectedCommands : d.y # None}}
            zs == {NumOf(Get(c.z)) : c \in {d \in SelectedCommands : d.z # None}}
        IN  /\ result = None <=> selectedLines = {}
            /\ result # None =>
                  /\ Get(result).minX = (IF xs = {} THEN Zero(1) ELSE Least(xs))
                  /\ Get(result).maxX = (IF xs = {} THEN Zero(1) ELSE Greatest(xs))
                  /\ Get(result).minY = (IF ys = {} THEN Zero(1) ELSE Least(ys))
                  /\ Get(result).maxY = (IF ys = {} THEN Zero(1) ELSE Greatest(ys))
                  /\ Get(result).minZ = (IF zs = {} THEN Zero(1) ELSE Least(zs))
                  /\ Get(result).maxZ = (IF zs = {} THEN Zero(1) ELSE Greatest(zs))

\* C14 witness: the first of two commands and an index beyond the list are
\* selected; the box has the x of the selected command and reports 0 for y,
\* which no command has, and for z, which only the unselected command has.
C14_Witness ==
    /\ CalledOp("calculateSelectionBounds")
    /\ content = Join(<<LineXOnly, LineZOnly>>)
    /\ selectedLines = {0, 2}
    /\ Get(call).result =
         Some([minX |-> NumInt(5), maxX |-> NumInt(5), minY |-> Zero(1), maxY |-> Zero(1),
               minZ |-> Zero(1), maxZ |-> Zero(1)])

(***************************************************************************)
(* The visualization panel: the surface, the layer toggles and the drag of *)
(* a selection rectangle.  Every handler is followed by the render its     *)
(* state change triggers (the effect on renderVisualization).              *)
(***************************************************************************)
\* Lines with a point on a layer, a point on no layer, an x alone, a y alone,
\* and a blank line (a file of blank lines has no command).
ViewLines == {LineMove, LinePointZ, LineXOnly, LineYOnly, LineBlank}

\* Pointer positions on the surface of a renderer: two opposite corners.
SurfacePoints(r) == {[x |-> NumInt(0), y |-> NumInt(0)],
                     [x |-> NumInt(r.width), y |-> NumInt(r.height)]}

\* renderVisualization: the filtered list is handed to render.
RenderVisualization(r, cmds, visible) == Render(r, VisibleCommands(cmds, visible))

\* The panel mounted on a loaded file: the renderer is constructed, sized by
\* resizeCanvas and has rendered the visible commands.
InitView ==
    /\ content \in TextsOver(ViewLines)
    /\ units = "metric"
    /\ parsedWith = "metric"
    /\ commands = Parse(content)
    /\ selectedLines = {}
    /\ transformation = DefaultTransformation
    /\ call = None
    /\ hasUnsavedChanges = FALSE
    /\ egress = None
    /\ visibleZHeights = GetZHeights(commands)
    /\ \E size \in SurfaceSizes :
          renderer = RenderVisualization(NewRenderer(size[1], size[2]), commands,
                                         visibleZHeights)
    /\ drag = NoDrag
    /\ rendered = Some(VisibleCommands(commands, visibleZHeights))
    /\ IdleServer

\* handleZHeightVisibilityChange(zHeight, visible) for a layer of the file.
HandleZHeightVisibilityChange(zHeight, visible) ==
    /\ visibleZHeights' = IF visible THEN visibleZHeights \cup {zHeight}
                          ELSE visibleZHeights \ {zHeight}
    /\ renderer' = RenderVisualization(renderer, commands, visibleZHeights')
    /\ rendered' = Some(VisibleCommands(commands, visibleZHeights'))
    /\ UNCHANGED <<editorVars, call, drag>>
    /\ UNCHANGED serverVars

\* handleMouseDown at the surface point p (the rectangle tool is active).
HandleMouseDown(p) ==
    /\ drag' = [isSelecting |-> TRUE, selectionStart |-> Some(p), selectionEnd |-> Some(p)]
    /\ renderer' = RenderVisualization(renderer, commands, visibleZHeights)
    /\ rendered' = Some(VisibleCommands(commands, visibleZHeights))
    /\ UNCHANGED <<editorVars, call, visibleZHeights>>
    /\ UNCHANGED serverVars

\* handleMouseMove to the surface point p while a rectangle is dragged.
HandleMouseMove(p) ==
    /\ drag.isSelecting /\ drag.selectionStart # None
    /\ drag' = [drag EXCEPT !.selectionEnd = Some(p)]
    /\ renderer' = RenderVisualization(renderer, commands, visibleZHeights)
    /\ rendered' = Some(VisibleCommands(commands, visibleZHeights))
    /\ UNCHANGED <<editorVars, call, visibleZHeights>>
    /\ UNCHANGED serverVars

\* handleMouseUp: without a rectangle the drag state is reset; otherwise the
\* commands of the whole list inside the rectangle become the selection
\* (onSelectionChange = handleSelectionChange).
HandleMouseUp ==
    /\ IF ~drag.isSelecting \/ drag.selectionStart = None \/ drag.selectionEnd = None
       THEN UNCHANGED <<selectedLines, call, renderer, rendered>>
       ELSE LET selectionStart == Get(drag.selectionStart)
                selectionEnd   == Get(drag.selectionEnd)
                worldStart == ScreenToWorld(renderer, selectionStart.x, selectionStart.y)
                worldEnd   == ScreenToWorld(renderer, selectionEnd.x, selectionEnd.y)
                selectedIndices == SelectInRectangle(commands, worldStart, worldEnd)
            IN  /\ selectedLines' = {selectedIndices[i] : i \in 1..Len(selectedIndices)}
                /\ call' = Some([op |-> "handleMouseUp",
                                 worldStart |-> worldStart, worldEnd |-> worldEnd,
                                 visibleCommands |-> VisibleCommands(commands, visibleZHeights),
                                 result |-> selectedIndices])
                /\ renderer' = RenderVisualization(renderer, commands, visibleZHeights)
                /\ rendered' = Some(VisibleCommands(commands, visibleZHeights))
    /\ drag' = NoDrag
    /\ UNCHANGED <<content, units, parsedWith, commands, transformation,
                   hasUnsavedChanges, egress, visibleZHeights>>
    /\ UNCHANGED serverVars

NextView ==
    \/ \E zHeight \in GetZHeights(commands), visible \in BOOLEAN :
          HandleZHeightVisibilityChange(zHeight, visible)
    \/ \E p \in SurfacePoints(renderer) : HandleMouseDown(p)
    \/ \E p \in SurfacePoints(renderer) : HandleMouseMove(p)
    \/ HandleMouseUp

SpecView == InitView /\ [][NextView]_vars

(***************************************************************************)
(* Claims about the viewport, checked under SpecView.                      *)
(***************************************************************************)
\* The bounds the renderer holds are finite and span a positive width and a
\* positive height.
NonDegenerateBounds ==
    /\ renderer.bounds # None
    /\ LET b == Get(renderer.bounds)
       IN  /\ IsFinite(b.minX) /\ IsFinite(b.maxX) /\ IsFinite(b.minY) /\ IsFinite(b.maxY)
           /\ Less(b.minX, b.maxX)
           /\ Less(b.minY, b.maxY)

\* Surface points and world points the round trips are taken on.
ProbeSurfacePoints ==
    {[x |-> NumInt(0), y |-> NumInt(0)], [x |-> NumInt(200), y |-> NumInt(160)],
     [x |-> NumInt(37), y |-> Rat(11, 2)]}
ProbeWorldPoints ==
    {[x |-> NumInt(0), y |-> NumInt(0)], [x |-> NumInt(2), y |-> NumInt(4)],
     [x |-> NumInt(-1), y |-> Rat(7, 3)]}

SamePoint(p, q) == StrictEquals(p.x, q.x) /\ StrictEquals(p.y, q.y)

\* Both round trips through the mapping the renderer holds.
RoundTrips ==
    /\ \A p \in ProbeSurfacePoints :
          LET w == ScreenToWorld(renderer, p.x, p.y)
          IN  SamePoint(WorldToScreen(renderer, w.x, w.y), p)
    /\ \A q \in ProbeWorldPoints :
          LET s == WorldToScreen(renderer, q.x, q.y)
          IN  SamePoint(ScreenToWorld(renderer, s.x, s.y), q)

\* C12 as stated: whenever the renderer's mapping was computed from
\* non-degenerate bounds, screenToWorld and worldToScreen are inverse to each
\* other on every point.
C12_Original == NonDegenerateBounds => RoundTrips

\* C12, amended: whenever the renderer's scale is finite and not zero and its
\* offsets are finite, worldToScreen(screenToWorld(p)) = p for every surface
\* point p and screenToWorld(worldToScreen(q)) = q for every world point q.
C12_Invertible ==
    (/\ IsFinite(renderer.scale) /\ ~IsZero(renderer.scale)
     /\ IsFinite(renderer.offsetX) /\ IsFinite(renderer.offsetY))
    => RoundTrips

\* C12 witness: 'G1 X10 Y0' and 'G1 X2 Y4 Z0.4' on a surface of 200 x 160,
\* rendered again while a rectangle is dragged: scale 13.5, offsets 19 and
\* 53; the surface origin is the world point (-38/27, 214/27).
C12_Witness ==
    /\ NonDegenerateBounds
    /\ drag.isSelecting
    /\ renderer.width = 200
    /\ renderer.scale = Rat(27, 2)
    /\ renderer.offsetX = NumInt(19)
    /\ renderer.offsetY = NumInt(53)
    /\ ScreenToWorld(renderer, NumInt(0), NumInt(0)) = [x |-> Rat(-38, 27), y |-> Rat(214, 27)]
    /\ RoundTrips

\* Every extremum of an optional box is a finite number.
FiniteBox(box, fields) == box # None => \A f \in fields : IsFinite(Get(box)[f])

\* C13: no bounding-box computation hands an infinite or NaN extremum to its
\* caller: the box the renderer holds after calculateBounds (read by
\* calculateTransform and returned by getBounds), the box of
\* GcodeParser.getBounds and the box of calculateSelectionBounds hold only
\* finite numbers.
C13_FiniteExtrema ==
    /\ FiniteBox(renderer.bounds, {"minX", "maxX", "minY", "maxY"})
    /\ FiniteBox(GetBounds(commands), {"minX", "maxX", "minY", "maxY", "minZ", "maxZ"})
    /\ FiniteBox(CalculateSelectionBounds(commands, ArrayFrom(selectedLines)),
                 {"minX", "maxX", "minY", "maxY", "minZ", "maxZ"})

\* The last pointer release that closed a rectangle.
Released == call # None /\ Get(call).op = "handleMouseUp"

\* The command has both coordinates, inside the rectangle spanned by the
\* world points of the release.
InDraggedRectangle(cmd) ==
    LET a == Get(call).worldStart
        b == Get(call).worldEnd
        px == NumOf(Get(cmd.x))
        py == NumOf(Get(cmd.y))
    IN  /\ cmd.x # None /\ cmd.y # None
        /\ (LessEq(a.x, px) /\ LessEq(px, b.x)) \/ (LessEq(b.x, px) /\ LessEq(px, a.x))
        /\ (LessEq(a.y, py) /\ LessEq(py, b.y)) \/ (LessEq(b.y, py) /\ LessEq(py, a.y))

\* C17: a pointer release that closes a rectangle selects no index when no
\* command with both coordinates lies in the rectangle, when the command list
\* is empty, and when the visible command list is empty.
C17_EmptySelection ==
    Released =>
        /\ (\A i \in 1..Len(commands) : ~InDraggedRectangle(commands[i]))
              => Get(call).result = <<>>
        /\ Len(commands) = 0 => Get(call).result = <<>>
        /\ Len(Get(call).visibleCommands) = 0 => Get(call).result = <<>>

\* The x and the y values of a command list.
XValues(cmds) == {NumOf(Get(cmds[i].x)) : i \in {j \in 1..Len(cmds) : cmds[j].x # None}}
YValues(cmds) == {NumOf(Get(cmds[i].y)) : i \in {j \in 1..Len(cmds) : cmds[j].y # None}}

\* C19: after every render the renderer's bounds, scale and offsets are those
\* of exactly the list handed to that render: they are what a renderer that
\* never rendered before computes from it, and the bounds are the least and
\* greatest x and y of its commands that have them.
C19_BoundsDerived ==
    rendered # None =>
        LET list == Get(rendered)
            xs == XValues(list)
            ys == YValues(list)
        IN  /\ renderer = Render(NewRenderer(renderer.width, renderer.height), list)
            /\ (xs # {} /\ ys # {}) =>
                  renderer.bounds = Some([minX |-> Least(xs), maxX |-> Greatest(xs),
                                          minY |-> Least(ys), maxY |-> Greatest(ys)])

\* scale = 1, offsetX = width / 2, offsetY = height / 2, all finite.
FallbackMapping ==
    /\ renderer.scale = NumInt(1)
    /\ renderer.offsetX = Rat(renderer.width, 2)
    /\ renderer.offsetY = Rat(renderer.height, 2)
    /\ IsFinite(renderer.scale) /\ IsFinite(renderer.offsetX) /\ IsFinite(renderer.offsetY)

EditLines == {LineMove, LineCommentTight, LineCommentEmpty, LineEmptyInline, LineBlank}

\* A half turn: applied twice it returns every point.
Rotate180 == [DefaultTransformation EXCEPT !.rotation = Whole(180)]

\* A file is loaded, some lines are selected and the transformation panel
\* holds a half turn.
InitEditor ==
    /\ content \in TextsOver(EditLines)
    /\ units = "metric"
    /\ parsedWith = "metric"
    /\ commands = Parse(content)
    /\ selectedLines \in SUBSET (0..(MaxLines - 1))
    /\ transformation = Rotate180
    /\ call = None
    /\ hasUnsavedChanges = FALSE
    /\ egress = None
    /\ visibleZHeights = GetZHeights(commands)
    /\ IdleView
    /\ IdleServer

\* handleApplyTransformation(transformation): nothing but a notice without a
\* selection.
HandleApplyTransformation ==
    /\ IF selectedLines = {}
       THEN UNCHANGED <<commands, hasUnsavedChanges>>
       ELSE /\ commands' =
                 LET r == ApplyTransformationToRegion(HeapOf(commands), 1,
                                                      ArrayFrom(selectedLines), transformation)
                 IN  ValuesOf(r.heap, r.ref)
            /\ hasUnsavedChanges' = TRUE
    /\ UNCHANGED <<content, units, parsedWith, selectedLines, transformation, call, egress>>
    /\ UNCHANGED viewVars
    /\ UNCHANGED serverVars

\* handleSave: the reconstructed text goes to updateMutation.  The button is
\* disabled while a save is pending.
HandleSave ==
    /\ content # NoFile /\ hasUnsavedChanges
    /\ call = None
    /\ LET newContent == ReconstructGcodeContent(commands)
       IN  /\ egress' = Some([via |-> "save", text |-> newContent, commands |-> commands])
           /\ call' = Some([op |-> "updateMutation", content |-> newContent])
    /\ UNCHANGED <<content, units, parsedWith, commands, selectedLines, transformation,
                   hasUnsavedChanges>>
    /\ UNCHANGED viewVars
    /\ UNCHANGED serverVars

\* updateMutation.onSuccess: the stored file becomes the current file.
UpdateSuccess ==
    /\ call # None /\ Get(call).op = "updateMutation"
    /\ content' = Get(call).content
    /\ hasUnsavedChanges' = FALSE
    /\ call' = None
    /\ UNCHANGED <<units, parsedWith, commands, selectedLines, transformation, egress>>
    /\ UNCHANGED viewVars
    /\ UNCHANGED serverVars

\* handleDownload: the reconstructed text goes into the downloaded blob.
HandleDownload ==
    /\ content # NoFile
    /\ egress' = Some([via |-> "download", text |-> ReconstructGcodeContent(commands),
                       commands |-> commands])
    /\ UNCHANGED <<content, units, parsedWith, commands, selectedLines, transformation,
                   call, hasUnsavedChanges>>
    /\ UNCHANGED viewVars
    /\ UNCHANGED serverVars

NextEditor ==
    \/ HandleApplyTransformation
    \/ HandleSave
    \/ UpdateSuccess
    \/ HandleDownload

SpecEditor == InitEditor /\ [][NextEditor]_vars

(***************************************************************************)
(* Claims about the text handed to save and download, checked under        *)
(* SpecEditor.                                                             *)
(***************************************************************************)
\* The text is one line per command of cmds, in list order, joined by
\* newlines, the line of a command being LineOf(command).
OneLinePerCommand(text, cmds, LineOf(_)) ==
    /\ text = Join([i \in 1..Len(cmds) |-> LineOf(cmds[i])])
    /\ Len(cmds) > 0 => Len(Split(text)) = Len(cmds)

\* C15 as stated: the text handed to save or download has one line per
\* command, '; ' + comment for an entry with mnemonic '', otherwise raw.
C15_Original ==
    egress # None =>
        LET LineOf(cmd) == IF cmd.command = <<>>
                           THEN <<";", " ">> \o Get(cmd.comment) ELSE cmd.raw
        IN  OneLinePerCommand(Get(egress).text, Get(egress).commands, LineOf)

\* C15, amended: the text handed to save or download has one line per
\* command, in list order, joined by newlines: '; ' + comment for an entry
\* with mnemonic '' and a comment that is not empty, otherwise raw.
C15_Reconstructed ==
    egress # None =>
        LET LineOf(cmd) == IF cmd.command = <<>> /\ Get(cmd.comment) # <<>>
                           THEN <<";", " ">> \o Get(cmd.comment) ELSE cmd.raw
        IN  OneLinePerCommand(Get(egress).text, Get(egress).commands, LineOf)

\* C15 witness: ';hello ' and 'G1 X10 Y0 F200' are loaded, the second command
\* is turned by a half turn and the file is saved: the text is '; hello' and
\* the regenerated raw text of the second command.
C15_Witness ==
    /\ egress # None
    /\ Get(egress).via = "save"
    /\ Len(Get(egress).commands) = 2
    /\ Get(egress).commands[1].raw = <<";", "h", "e", "l", "l", "o">>
    /\ Get(egress).text =
         <<";", " ", "h", "e", "l", "l", "o", "\n",
           "G", "1", " ", "X", "-", "1", "0", ".", "0", "0", "0", " ",
           "Y", "0", ".", "0", "0", "0", " ", "F", "2", "0", "0">>

(***************************************************************************)
(* A rotation followed by the opposite rotation.                           *)
(***************************************************************************)
\* Points with three, four and five decimals, a command without y, a comment.
InverseLines == {LineMove, LineFine, LineFull, LineXOnly, LineComment}

\* Rotation angles in degrees: quarter and half turns and the angle of the
\* 3-4-5 triangle, in both directions.
Angles == {Whole(90), Whole(180), Whole(-90), Angle345, -Angle345}

\* The transformation with rotation -t for the rotation t, scale 1 and no
\* translation.
Opposite(t) == [t EXCEPT !.rotation = -t.rotation]

InitInverse ==
    /\ content \in TextsOver(InverseLines)
    /\ units = "metric"
    /\ parsedWith = "metric"
    /\ commands = Parse(content)
    /\ selectedLines \in SUBSET (0..(MaxLines - 1))
    /\ transformation \in {[DefaultTransformation EXCEPT !.rotation = a] : a \in Angles}
    /\ call = None
    /\ hasUnsavedChanges = FALSE
    /\ egress = None
    /\ visibleZHeights = GetZHeights(commands)
    /\ IdleView
    /\ IdleServer

\* applyTransformationToRegion(commands, selectedIndices, transformation):
\* the rotation by t.
RotateCall ==
    /\ call = None
    /\ LET r == ApplyTransformationToRegion(HeapOf(commands), 1, ArrayFrom(selectedLines),
                                            transformation)
       IN  /\ commands' = ValuesOf(r.heap, r.ref)
           /\ call' = Some([op |-> "rotate", original |-> commands])
    /\ UNCHANGED <<content, units, parsedWith, selectedLines, transformation,
                   hasUnsavedChanges, egress>>
    /\ UNCHANGED viewVars
    /\ UNCHANGED serverVars

\* applyTransformationToRegion on the result of the first call, with the
\* opposite rotation.
RotateBackCall ==
    /\ call # None /\ Get(call).op = "rotate"
    /\ LET r == ApplyTransformationToRegion(HeapOf(commands), 1, ArrayFrom(selectedLines),
                                            Opposite(transformation))
       IN  /\ commands' = ValuesOf(r.heap, r.ref)
           /\ call' = Some([op |-> "rotateBack", original |-> Get(call).original,
                            intermediate |-> commands])
    /\ UNCHANGED <<content, units, parsedWith, selectedLines, transformation,
                   hasUnsavedChanges, egress>>
    /\ UNCHANGED viewVars
    /\ UNCHANGED serverVars

NextInverse ==
    \/ RotateCall
    \/ RotateBackCall

SpecInverse == InitInverse /\ [][NextInverse]_vars

(***************************************************************************)
(* Claims about the inverse rotation, checked under SpecInverse.           *)
(***************************************************************************)
RotatedBack == call # None /\ Get(call).op = "rotateBack"

\* The selected positions whose original command has x and y.
RotatedPositions ==
    {i \in 1..Len(commands) : /\ (i - 1) \in selectedLines
                              /\ Get(call).original[i].x # None
                              /\ Get(call).original[i].y # None}

\* After both rotations every rotated command has x and y within tol of the
\* original values.
ReturnsWithin(tol) ==
    \A i \in RotatedPositions :
        /\ Abs(Get(commands[i].x) - Get(Get(call).original[i].x)) <= tol
        /\ Abs(Get(commands[i].y) - Get(Get(call).original[i].y)) <= tol

\* C16 as stated: rotating by t and then by -t returns x and y of every
\* command that has both to within 0.001 of the original values.
C16_Original == RotatedBack => ReturnsWithin(Unit \div 1000)

\* C16, amended: rotating by t and then by -t returns x and y to within
\* 0.00125 of the original values, and to within 0.001 for a command whose
\* original x and y have at most 3 decimals.
C16_InverseRotation ==
    RotatedBack =>
        /\ ReturnsWithin((Unit \div 1000) + (Unit \div 4000))
        /\ \A i \in RotatedPositions :
              LET x0 == Get(Get(call).original[i].x)
                  y0 == Get(Get(call).original[i].y)
              IN  (x0 % (Unit \div 1000) = 0 /\ y0 % (Unit \div 1000) = 0)
                  => /\ Abs(Get(commands[i].x) - x0) <= Unit \div 1000
                     /\ Abs(Get(commands[i].y) - y0) <= Unit \div 1000

\* C16 witness: (10.00005, 0.0007) turned by 53.1301 degrees is stored as
\* (5.999, 8), turned back it is (9.999, 0.001): x is off by 0.00105.
C16_Witness ==
    /\ RotatedBack
    /\ content = LineFine
    /\ selectedLines = {0}
    /\ transformation.rotation = Angle345
    /\ Get(call).intermediate[1].x = Some(Dec4(59990))
    /\ Get(call).intermediate[1].y = Some(Whole(8))
    /\ commands[1].x = Some(Dec4(99990))
    /\ commands[1].y = Some(Dec4(10))

(***************************************************************************)
(* Claims about the fitted mapping, checked under SpecView.                *)
(***************************************************************************)
\* scale = min((width - 2 * padding) / dataWidth,
\*             (height - 2 * padding) / dataHeight) * 0.9
FittedScale ==
    LET b == Get(renderer.bounds)
    IN  renderer.scale =
           Times(MathMin(Over(NumInt(renderer.width - 2 * Padding), Minus(b.maxX, b.minX)),
                         Over(NumInt(renderer.height - 2 * Padding), Minus(b.maxY, b.minY))),
                 Rat(9, 10))

\* The centre of the bounding box is drawn at the centre of the surface.
CentreOnCentre ==
    LET b == Get(renderer.bounds)
        c == WorldToScreen(renderer, Over(Plus(b.minX, b.maxX), NumInt(2)),
                                     Over(Plus(b.minY, b.maxY), NumInt(2)))
    IN  /\ c.x = Rat(renderer.width, 2)
        /\ c.y = Rat(renderer.height, 2)

\* Every corner of the bounding box, and so every point of it, is drawn
\* inside [padding, width - padding] x [padding, height - padding].
BoxInPaddedRectangle ==
    LET b == Get(renderer.bounds)
    IN  \A x \in {b.minX, b.maxX}, y \in {b.minY, b.maxY} :
           LET p == WorldToScreen(renderer, x, y)
           IN  /\ LessEq(NumInt(Padding), p.x)
               /\ LessEq(p.x, NumInt(renderer.width - Padding))
               /\ LessEq(NumInt(Padding), p.y)
               /\ LessEq(p.y, NumInt(renderer.height - Padding))

\* C21 as stated: for non-degenerate bounds the scale is the fitted scale,
\* the centre of the bounding box is drawn at the centre of the surface and
\* the bounding box is drawn inside the padded rectangle.
C21_Original ==
    NonDegenerateBounds => FittedScale /\ CentreOnCentre /\ BoxInPaddedRectangle

\* C21, amended: for non-degenerate bounds the scale is the fitted scale and
\* the centre of the bounding box is drawn at the centre of the surface; the
\* bounding box is drawn inside the padded rectangle when the surface is at
\* least twice the padding wide and high.
C21_FittedMapping ==
    NonDegenerateBounds =>
        /\ FittedScale
        /\ CentreOnCentre
        /\ (renderer.width >= 2 * Padding /\ renderer.height >= 2 * Padding)
              => BoxInPaddedRectangle

\* C21 witness: 'G1 X2 Y4 Z0.4' and 'G1 X10 Y0 F200' on a surface of
\* 200 x 160, rendered again while a rectangle is dragged: scale 13.5; the
\* corner (2, 0) of the box is drawn at (46, 107), the corner (10, 4) at
\* (154, 53).
C21_Witness ==
    /\ NonDegenerateBounds
    /\ drag.isSelecting
    /\ renderer.width = 200
    /\ renderer.scale = Rat(27, 2)
    /\ WorldToScreen(renderer, NumInt(2), NumInt(0)) = [x |-> NumInt(46), y |-> NumInt(107)]
    /\ WorldToScreen(renderer, NumInt(10), NumInt(4)) = [x |-> NumInt(154), y |-> NumInt(53)]
    /\ rendered = Some(commands)

(***************************************************************************)
(* Claims about parameter extraction, checked under SpecParse.             *)
(***************************************************************************)
\* The positions at which a word of s starts, and the word starting there
\* (words are separated by white space).
WordStarts(s) == {i \in 1..Len(s) : ~IsWhiteSpace(s[i]) /\ (i = 1 \/ IsWhiteSpace(s[i - 1]))}
WordAt(s, i) ==
    SubSeq(s, i, CHOOSE j \in i..Len(s) :
                    /\ \A k \in i..j : ~IsWhiteSpace(s[k])
                    /\ j = Len(s) \/ IsWhiteSpace(s[j + 1]))

\* A well-formed numeric part: an optional sign, digits, optionally a point
\* and further digits.
IsNumber(t) ==
    LET body == IF t # <<>> /\ t[1] = "-" THEN Tail(t) ELSE t
    IN  /\ Len(body) >= 1
        /\ IsDigit(body[1])
        /\ \A k \in 1..Len(body) : IsDigit(body[k]) \/ body[k] = "."
        /\ Cardinality({k \in 1..Len(body) : body[k] = "."}) <= 1

\* The value a code portion gives to a parameter letter: that of the last
\* word that is the letter (in either case) with a well-formed numeric part,
\* nothing when it has no such word.
ExpectedParameter(code, letter) ==
    LET occ == {i \in WordStarts(code) : /\ ToUpperChar(code[i]) = letter
                                         /\ IsNumber(Tail(WordAt(code, i)))}
    IN  IF occ = {} THEN None
        ELSE Some(ParseFloat(Tail(WordAt(code, CHOOSE i \in occ : \A j \in occ : j <= i))))

\* C22: parameter extraction.  Every command of a code line has for each of
\* X, Y, Z, F, E, S the value of the last word of the code portion that gives
\* the letter a well-formed number; words with a malformed numeric part give
\* nothing to any field, and a letter without such a word is undefined.
C22_ParameterExtraction ==
    Loaded =>
        \A k \in 1..Len(commands) :
            commands[k].command # <<>> =>
                LET code == CodePortion(PhysicalLines[commands[k].line])
                IN  /\ commands[k].x = ExpectedParameter(code, "X")
                    /\ commands[k].y = ExpectedParameter(code, "Y")
                    /\ commands[k].z = ExpectedParameter(code, "Z")
                    /\ commands[k].f = ExpectedParameter(code, "F")
                    /\ commands[k].e = ExpectedParameter(code, "E")
                    /\ commands[k].s = ExpectedParameter(code, "S")

(***************************************************************************)
(* The server: MemStorage and the routes of /api/gcode-files.              *)
(*                                                                         *)
(* A storage is the record of the fields files (a function from the ids    *)
(* stored to the files) and currentId.  An uploaded buffer is a sequence   *)
(* of bytes; a character outside ASCII is a string naming its code point.  *)
(***************************************************************************)
\* Most files ever created in a session of the server.
MaxFiles == 2

\* The map with key k set to v.
MapSet(m, k, v) == [j \in DOMAIN m \cup {k} |-> IF j = k THEN v ELSE m[j]]

\* The map without key k.
MapDelete(m, k) == [j \in DOMAIN m \ {k} |-> m[j]]

\* MemStorage.getGcodeFile
GetGcodeFile(st, id) == IF id \in DOMAIN st.files THEN Some(st.files[id]) ELSE None

\* createGcodeFile with a seeded fault: the id is one more than the number
\* of files stored.
CreateCountingStored(st, insertFile) ==
    LET id   == Cardinality(DOMAIN st.files) + 1
        file == [id |-> id, name |-> insertFile.name, content |-> insertFile.content,
                 size |-> insertFile.size, lineCount |-> insertFile.lineCount]
    IN  [storage |-> [files |-> MapSet(st.files, id, file), currentId |-> st.currentId + 1],
         file |-> file]

\* MemStorage.createGcodeFile: the storage afterwards and the file returned.
CreateGcodeFile(st, insertFile) ==
    LET id   == st.currentId
        file == [id |-> id, name |-> insertFile.name, content |-> insertFile.content,
                 size |-> insertFile.size, lineCount |-> insertFile.lineCount]
    IN  [storage |-> [files |-> MapSet(st.files, id, file), currentId |-> st.currentId + 1],
         file |-> file]

\* MemStorage.updateGcodeFile: updateData has each of name, content, size and
\* lineCount or not ({ ...existingFile, ...updateData }).
UpdateGcodeFile(st, id, updateData) ==
    IF id \notin DOMAIN st.files THEN [storage |-> st, file |-> None]
    ELSE LET existingFile == st.files[id]
             Over1(field) == IF updateData[field] # None THEN Get(updateData[field])
                             ELSE existingFile[field]
             updatedFile == [id |-> existingFile.id, name |-> Over1("name"),
                             content |-> Over1("content"), size |-> Over1("size"),
                             lineCount |-> Over1("lineCount")]
         IN  [storage |-> [st EXCEPT !.files = MapSet(st.files, id, updatedFile)],
              file |-> Some(updatedFile)]

\* MemStorage.deleteGcodeFile
DeleteGcodeFile(st, id) ==
    [storage |-> [st EXCEPT !.files = MapDelete(st.files, id)],
     deleted |-> id \in DOMAIN st.files]

\* String.prototype.endsWith
EndsWith(str, suffix) ==
    Len(str) >= Len(suffix) /\ SubSeq(str, Len(str) - Len(suffix) + 1, Len(str)) = suffix

\* The fileFilter of multer: the extensions accepted, in any case.
HasValidExtension(originalname) ==
    \E ext \in {<<".", "G", "C", "O", "D", "E">>, <<".", "N", "C">>, <<".", "T", "X", "T">>} :
        EndsWith(ToUpperCase(originalname), ext)

\* upload.single('file'): req.file for the file part of a request, nothing
\* when the request has no file part or the filter rejects it.
UploadSingle(part) ==
    IF part = None THEN None
    ELSE IF ~HasValidExtension(Get(part).originalname) THEN None
    ELSE Some([originalname |-> Get(part).originalname, buffer |-> Get(part).buffer,
               size |-> Len(Get(part).buffer)])

\* The characters below 128 that occur in the buffers of the model.
AsciiChar(b) ==
    CASE b = 10 -> "\n"
      [] b = 32 -> " "
      [] b \in 48..57 -> Digits[b - 47]
      [] b = 59 -> ";"
      [] b = 71 -> "G"
      [] b = 88 -> "X"
      [] b = 89 -> "Y"

IsContinuation(b) == b >= 128 /\ b <= 191

RECURSIVE Utf8Decode(_)
\* buffer.toString('utf-8'): an ASCII byte is its character, a two-byte
\* sequence is one character, and a byte that starts no complete sequence is
\* replaced by U+FFFD.
Utf8Decode(bytes) ==
    IF bytes = <<>> THEN <<>>
    ELSE IF bytes[1] < 128 THEN <<AsciiChar(bytes[1])>> \o Utf8Decode(Tail(bytes))
    ELSE IF bytes[1] >= 194 /\ bytes[1] <= 223 /\ Len(bytes) >= 2 /\ IsContinuation(bytes[2])
         THEN <<"U+00E9">> \o Utf8Decode(SubSeq(bytes, 3, Len(bytes)))
    ELSE <<"U+FFFD">> \o Utf8Decode(Tail(bytes))

RECURSIVE ByteLength(_)
\* Buffer.byteLength(content, 'utf-8')
ByteLength(str) ==
    IF str = <<>> THEN 0
    ELSE (CASE str[1] = "U+00E9" -> 2
            [] str[1] = "U+FFFD" -> 3
            [] OTHER -> 1) + ByteLength(Tail(str))

\* parseInt(req.params.id): leading white space and a sign are passed over,
\* the digits that follow are the number, whatever comes behind them; NaN
\* (nothing) when no digit follows.
ParseInt(str) ==
    LET t == IF \A k \in 1..Len(str) : IsWhiteSpace(str[k]) THEN <<>>
             ELSE SubSeq(str, CHOOSE k \in 1..Len(str) :
                                 /\ ~IsWhiteSpace(str[k])
                                 /\ \A j \in 1..(k - 1) : IsWhiteSpace(str[j]),
                         Len(str))
        neg == t # <<>> /\ t[1] = "-"
        u == IF t # <<>> /\ t[1] \in {"-", "+"} THEN Tail(t) ELSE t
        end == IF u = <<>> THEN 0 ELSE DigitsEnd(u, 1)
    IN  IF end = 0 THEN None
        ELSE Some((IF neg THEN -1 ELSE 1) * DigitsToInt(SubSeq(u, 1, end)))

\* An answer of a route: the storage afterwards, the status and the body.
Answer(st, status, body) == [storage |-> st, status |-> status, body |-> body]

\* GET /api/gcode-files/:id
GetRoute(st, idParam) ==
    LET id == ParseInt(idParam)
    IN  IF id = None THEN Answer(st, 400, None)
        ELSE IF GetGcodeFile(st, Get(id)) = None THEN Answer(st, 404, None)
        ELSE Answer(st, 200, GetGcodeFile(st, Get(id)))

\* POST /api/gcode-files for the file part of the request.
PostRoute(st, part) ==
    LET file == UploadSingle(part)
    IN  IF file = None THEN Answer(st, 400, None)
        ELSE LET fileContent == Utf8Decode(Get(file).buffer)
                 fileData == [name |-> Get(file).originalname, content |-> fileContent,
                              size |-> Get(file).size, lineCount |-> Len(Split(fileContent))]
                 saved == CreateGcodeFile(st, fileData)
             IN  Answer(saved.storage, 201, Some(saved.file))

\* PATCH /api/gcode-files/:id; body.content is a value with its type.
PatchRoute(st, idParam, body) ==
    LET id == ParseInt(idParam)
    IN  IF id = None THEN Answer(st, 400, None)
        ELSE IF body.content.type # "string" THEN Answer(st, 400, None)
        ELSE LET newContent == body.content.value
                 updated == UpdateGcodeFile(st, Get(id),
                               [name |-> None, content |-> Some(newContent),
                                lineCount |-> Some(Len(Split(newContent))),
                                size |-> Some(ByteLength(newContent))])
             IN  IF updated.file = None THEN Answer(st, 404, None)
                 ELSE Answer(updated.storage, 200, updated.file)

\* GET /api/gcode-files/:id/download: the body is the content.
DownloadRoute(st, idParam) ==
    LET id == ParseInt(idParam)
    IN  IF id = None THEN Answer(st, 400, None)
        ELSE IF GetGcodeFile(st, Get(id)) = None THEN Answer(st, 404, None)
        ELSE Answer(st, 200, Some(Get(GetGcodeFile(st, Get(id))).content))

\* DELETE /api/gcode-files/:id
DeleteRoute(st, idParam) ==
    LET id == ParseInt(idParam)
    IN  IF id = None THEN Answer(st, 400, None)
        ELSE LET r == DeleteGcodeFile(st, Get(id))
             IN  IF ~r.deleted THEN Answer(st, 404, None)
                 ELSE Answer(r.storage, 204, None)

(***************************************************************************)
(* SpecStore: requests to the routes of /api/gcode-files, one at a time.   *)
(***************************************************************************)
\* "G1\nG1"
BufferAscii == <<71, 49, 10, 71, 49>>
\* "G1 ;" and e acute in UTF-8
BufferUtf8 == <<71, 49, 32, 59, 195, 169>>
\* "G1 ;" and e acute in ISO 8859-1
BufferLatin1 == <<71, 49, 32, 59, 233>>

NameGcode == <<"a", ".", "g", "c", "o", "d", "e">>
NameNc == <<"b", ".", "N", "C">>
NameExe == <<"a", ".", "e", "x", "e">>

\* The file part of an upload request: none, or a name and the bytes.
FileParts ==
    {None, Some([originalname |-> NameGcode, buffer |-> BufferAscii]),
           Some([originalname |-> NameGcode, buffer |-> BufferUtf8]),
           Some([originalname |-> NameNc, buffer |-> BufferLatin1]),
           Some([originalname |-> NameExe, buffer |-> BufferAscii])}

\* The :id of a request.
IdParams == {<<"1">>, <<"2">>, <<"3">>, <<"a", "b", "c">>, <<"1", "a", "b", "c">>}

\* The content of the body of a PATCH request: a string, a number, or none
\* (the value of what is no string plays no part).
PatchBodies ==
    {[content |-> [type |-> "string", value |-> v]] :
        v \in {<<"G", "1">>, <<"G", "1", "\n", ";", "U+00E9">>}}
    \cup {[content |-> [type |-> "number", value |-> <<>>]],
          [content |-> [type |-> "undefined", value |-> <<>>]]}

\* The editor before any file is loaded.
IdleClient ==
    /\ content = <<>>
    /\ units = "metric"
    /\ parsedWith = "metric"
    /\ commands = <<>>
    /\ selectedLines = {}
    /\ transformation = Rotate180
    /\ call = None
    /\ hasUnsavedChanges = FALSE
    /\ egress = None
    /\ visibleZHeights = {}

InitStore ==
    /\ IdleClient
    /\ IdleView
    /\ IdleServer

\* The server answers a request; the request, the answer and the storage
\* before are kept for inspection.
Respond(method, idParam, body, answer) ==
    /\ answer.storage.currentId <= MaxFiles + 1
    /\ storage' = answer.storage
    /\ lastResponse' = Some([method |-> method, idParam |-> idParam, request |-> body,
                             status |-> answer.status, body |-> answer.body,
                             before |-> storage])
    /\ UNCHANGED <<editorVars, viewVars, call, currentFile, network>>

Post(part) == Respond("POST", <<>>, part, PostRoute(storage, part))

Patch(idParam, body) == Respond("PATCH", idParam, Some(body), PatchRoute(storage, idParam, body))

GetFile(idParam) == Respond("GET", idParam, None, GetRoute(storage, idParam))

Download(idParam) == Respond("DOWNLOAD", idParam, None, DownloadRoute(storage, idParam))

Delete(idParam) == Respond("DELETE", idParam, None, DeleteRoute(storage, idParam))

NextStore ==
    \/ \E part \in FileParts : Post(part)
    \/ \E idParam \in IdParams, body \in PatchBodies : Patch(idParam, body)
    \/ \E idParam \in IdParams : GetFile(idParam)
    \/ \E idParam \in IdParams : Download(idParam)
    \/ \E idParam \in IdParams : Delete(idParam)

SpecStore == InitStore /\ [][NextStore]_vars

(***************************************************************************)
(* C28: the ids of MemStorage.                                             *)
(***************************************************************************)
\* Every file is stored under its id, below the next id to hand out.
KeysAreIds ==
    \A k \in DOMAIN storage.files : storage.files[k].id = k /\ k < storage.currentId

\* A step hands out no id a second time: the next id never decreases, a new
\* key is at least the next id before, and a file that stays keeps its id.
IdsHandedOutOnce ==
    /\ storage'.currentId >= storage.currentId
    /\ \A k \in DOMAIN storage'.files \ DOMAIN storage.files :
          k >= storage.currentId /\ k < storage'.currentId
    /\ \A k \in DOMAIN storage'.files \cap DOMAIN storage.files :
          storage'.files[k].id = storage.files[k].id

\* C28: the ids MemStorage hands out increase strictly and are never used
\* again, not after a deletion either; the key of a file in the map is its
\* id field, and an update never changes the id.
C28_StorageIds == [](KeysAreIds) /\ [][IdsHandedOutOnce]_vars

\* A file was created and deleted, another was created and then updated.
C28_Witness ==
    /\ DOMAIN storage.files = {2}
    /\ storage.currentId = 3
    /\ lastResponse # None
    /\ Get(lastResponse).method = "PATCH"
    /\ Get(lastResponse).status = 200

(***************************************************************************)
(* C29: the metadata of a stored file.                                     *)
(***************************************************************************)
\* lineCount and size as derived from the content of the file.
LineCountOfContent(file) == file.lineCount = Len(Split(file.content))

SizeOfContent(file) == file.size = ByteLength(file.content)

\* The last request was a PATCH that succeeded.
Patched ==
    /\ lastResponse # None
    /\ Get(lastResponse).method = "PATCH"
    /\ Get(lastResponse).status = 200

\* The file a successful PATCH answered with, and the file it replaced.
PatchedFile == Get(Get(lastResponse).body)

ReplacedFile == Get(lastResponse).before.files[PatchedFile.id]

\* C29: of every stored file, lineCount is the number of segments of its
\* content between newlines and size is the length of its content in bytes
\* of UTF-8; a PATCH stores the new content with its lineCount and size and
\* leaves name and id as they were.
C29_StoredMetadata ==
    /\ \A k \in DOMAIN storage.files :
          LineCountOfContent(storage.files[k]) /\ SizeOfContent(storage.files[k])
    /\ Patched =>
          /\ PatchedFile.content = Get(Get(lastResponse).request).content.value
          /\ storage.files[PatchedFile.id] = PatchedFile
          /\ PatchedFile.name = ReplacedFile.name
          /\ PatchedFile.id = ReplacedFile.id

(***************************************************************************)
(* C30: requests that fail.                                                *)
(***************************************************************************)
\* The :id is a number: digits and nothing else.
IsNumericId(idParam) ==
    idParam # <<>> /\ \A k \in 1..Len(idParam) : IsDigit(idParam[k])

\* The request named a file with its :id.
NamesFile(r) == r.method \in {"GET", "PATCH", "DOWNLOAD", "DELETE"}

\* The :id is a number under which no file was stored when the request came.
UnknownId(r) ==
    IsNumericId(r.idParam) /\ DigitsToInt(r.idParam) \notin DOMAIN r.before.files

\* The content of a PATCH request is no string.
NonStringContent(r) == r.method = "PATCH" /\ Get(r.request).content.type # "string"

\* An upload request without a file the filter accepts.
NoAcceptedFile(r) ==
    /\ r.method = "POST"
    /\ r.request = None \/ ~HasValidExtension(Get(r.request).originalname)

\* C30: a request with a non-numeric id is answered 400, one with an unknown
\* id 404 (all the same for a DELETE repeated), a PATCH whose content is no
\* string 400 and an upload without an accepted file 400; none of them
\* changes the store.
C30_FailedRequests ==
    lastResponse # None =>
        LET r == Get(lastResponse)
        IN  /\ NamesFile(r) /\ ~IsNumericId(r.idParam) => r.status = 400
            /\ NamesFile(r) /\ UnknownId(r) /\ ~NonStringContent(r) => r.status = 404
            /\ NonStringContent(r) => r.status = 400
            /\ NoAcceptedFile(r) => r.status = 400
            /\ r.status \in {400, 404} => storage = r.before

(***************************************************************************)
(* SpecSession: the editor page and the server.  A request travels to the  *)
(* server, is answered there, and the answer travels back to the callback  *)
(* of its mutation; other handlers of the page run in between.             *)
(***************************************************************************)
\* "G21\nG90": two lines without coordinates
BufferHeader == <<71, 50, 49, 10, 71, 57, 48>>
\* "G1 X1 Y2"
BufferOneMove == <<71, 49, 32, 88, 49, 32, 89, 50>>

\* The files the user picks: two that are accepted and one that is not.
SessionParts ==
    {[originalname |-> NameGcode, buffer |-> BufferHeader],
     [originalname |-> NameNc, buffer |-> BufferOneMove],
     [originalname |-> NameExe, buffer |-> BufferOneMove]}

\* World points a dragged rectangle is spanned by.
WorldPoints == {[x |-> NumInt(-10), y |-> NumInt(-10)], [x |-> NumInt(0), y |-> NumInt(0)],
                [x |-> NumInt(10), y |-> NumInt(10)]}

\* A message between the page and the server: a request (POST, PATCH) or
\* the response to one, with the fields the other kinds leave empty.
Message(kind, idParam, file, text, status, data) ==
    [kind |-> kind, idParam |-> idParam, file |-> file, text |-> text,
     status |-> status, data |-> data]

\* uploadMutation.isPending, updateMutation.isPending
UploadPending == \E m \in network : m.kind \in {"POST", "POST response"}

UpdatePending == \E m \in network : m.kind \in {"PATCH", "PATCH response"}

InitSession ==
    /\ IdleClient
    /\ IdleView
    /\ IdleServer

\* handleFileChange: uploadMutation.mutate(file); the buttons that lead here
\* are disabled while an upload is pending.
HandleFileChange(part) ==
    /\ ~UploadPending
    /\ network' = network \cup {Message("POST", <<>>, Some(part), <<>>, 0, None)}
    /\ UNCHANGED <<editorVars, viewVars, call, storage, currentFile, lastResponse>>

\* handleSave: updateMutation.mutate(newContent) sends the reconstructed
\* text to the id of the current file; the button is disabled while a save
\* is pending.
HandleSaveRequest ==
    /\ currentFile # None /\ hasUnsavedChanges
    /\ ~UpdatePending
    /\ LET newContent == ReconstructGcodeContent(commands)
       IN  network' = network \cup
              {Message("PATCH", IntToDigits(Get(currentFile).id), None, newContent, 0, None)}
    /\ UNCHANGED <<editorVars, viewVars, call, storage, currentFile, lastResponse>>

\* The server answers the request m.
ServerHandles(m) ==
    /\ m \in network /\ m.kind \in {"POST", "PATCH"}
    /\ LET answer == IF m.kind = "POST" THEN PostRoute(storage, m.file)
                     ELSE PatchRoute(storage, m.idParam,
                                     [content |-> [type |-> "string", value |-> m.text]])
       IN  /\ answer.storage.currentId <= MaxFiles + 1
           /\ storage' = answer.storage
           /\ network' = (network \ {m}) \cup
                 {Message(IF m.kind = "POST" THEN "POST response" ELSE "PATCH response",
                          m.idParam, None, <<>>, answer.status, answer.body)}
    /\ UNCHANGED <<editorVars, viewVars, call, currentFile, lastResponse>>

\* uploadMutation.onSuccess with a seeded fault: the selection is kept.
UploadResponseKeepingSelection(m) ==
    /\ m \in network /\ m.kind = "POST response" /\ m.status = 201
    /\ LET data == Get(m.data)
           parsedCommands == Parse(data.content)
       IN  /\ currentFile' = Some(data)
           /\ content' = data.content
           /\ commands' = parsedCommands
           /\ visibleZHeights' = GetZHeights(parsedCommands)
           /\ hasUnsavedChanges' = FALSE
           /\ call' = Some([op |-> "uploadMutation.onSuccess", data |-> data])
    /\ network' = network \ {m}
    /\ UNCHANGED <<units, parsedWith, selectedLines, transformation, egress>>
    /\ UNCHANGED <<renderer, drag, rendered, storage, lastResponse>>

\* uploadMutation.onSuccess for the response m: the file answered becomes
\* the current file, its content is parsed, every layer is visible, the
\* selection is empty and nothing is unsaved.
UploadSuccessResponse(m) ==
    /\ m \in network /\ m.kind = "POST response" /\ m.status = 201
    /\ LET data == Get(m.data)
           parsedCommands == Parse(data.content)
       IN  /\ currentFile' = Some(data)
           /\ content' = data.content
           /\ commands' = parsedCommands
           /\ visibleZHeights' = GetZHeights(parsedCommands)
           /\ selectedLines' = {}
           /\ hasUnsavedChanges' = FALSE
           /\ call' = Some([op |-> "uploadMutation.onSuccess", data |-> data])
    /\ network' = network \ {m}
    /\ UNCHANGED <<units, parsedWith, transformation, egress>>
    /\ UNCHANGED <<renderer, drag, rendered, storage, lastResponse>>

\* uploadMutation.onError for the response m: a notice and nothing else.
UploadError(m) ==
    /\ m \in network /\ m.kind = "POST response" /\ m.status # 201
    /\ network' = network \ {m}
    /\ UNCHANGED <<editorVars, viewVars, call, storage, currentFile, lastResponse>>

\* updateMutation.onSuccess for the response m: the file answered becomes
\* the current file and nothing is unsaved.
UpdateSuccessResponse(m) ==
    /\ m \in network /\ m.kind = "PATCH response" /\ m.status = 200
    /\ currentFile' = m.data
    /\ content' = Get(m.data).content
    /\ hasUnsavedChanges' = FALSE
    /\ network' = network \ {m}
    /\ UNCHANGED <<units, parsedWith, commands, selectedLines, transformation, egress>>
    /\ UNCHANGED <<viewVars, call, storage, lastResponse>>

\* handleLineSelect(lineNumber, selected) from a click on a line of the code
\* editor: onLineSelect(index, !isSelected).
HandleLineSelect(lineNumber) ==
    /\ lineNumber \in 0..(Len(commands) - 1)
    /\ selectedLines' = IF lineNumber \notin selectedLines
                        THEN selectedLines \cup {lineNumber}
                        ELSE selectedLines \ {lineNumber}
    /\ UNCHANGED <<content, units, parsedWith, commands, transformation,
                   hasUnsavedChanges, egress>>
    /\ UNCHANGED <<viewVars, call>>
    /\ UNCHANGED serverVars

\* handleSelectionChange(selectedIndices) with the indices handleMouseUp
\* collects for a rectangle dragged between two world points.
HandleSelectionChange(worldStart, worldEnd) ==
    /\ commands # <<>>
    /\ LET selectedIndices == SelectInRectangle(commands, worldStart, worldEnd)
       IN  selectedLines' = {selectedIndices[i] : i \in 1..Len(selectedIndices)}
    /\ UNCHANGED <<content, units, parsedWith, commands, transformation,
                   hasUnsavedChanges, egress>>
    /\ UNCHANGED <<viewVars, call>>
    /\ UNCHANGED serverVars

NextSession ==
    \/ \E part \in SessionParts : HandleFileChange(part)
    \/ \E m \in network : ServerHandles(m)
    \/ \E m \in network : UploadSuccessResponse(m)
    \/ \E m \in network : UploadError(m)
    \/ \E lineNumber \in 0..(MaxLines - 1) : HandleLineSelect(lineNumber)
    \/ \E worldStart \in WorldPoints, worldEnd \in WorldPoints :
          HandleSelectionChange(worldStart, worldEnd)
    \/ HandleApplyTransformation
    \/ HandleSaveRequest
    \/ \E m \in network : UpdateSuccessResponse(m)

SpecSession == InitSession /\ [][NextSession]_vars

(***************************************************************************)
(* C23: the selection holds indices of the command list.                   *)
(***************************************************************************)
ValidSelection == \A i \in selectedLines : i >= 0 /\ i < Len(commands)

\* The step delivers the response of a successful upload to the page.
LoadStep ==
    \E m \in network : m.kind = "POST response" /\ m.status = 201 /\ m \notin network'

\* C23: whatever uploads, line clicks, region selections, transformations
\* and saves have happened, every index in selectedLines is an index of
\* commands; the step that loads a file empties the selection.
C23_SelectionValid == [](ValidSelection) /\ [][LoadStep => selectedLines' = {}]_vars

\* A second file with fewer lines was loaded, its line selected and
\* transformed.
C23_Witness ==
    /\ call # None /\ Get(call).data.id = 2
    /\ Len(commands) = 1
    /\ selectedLines = {0}
    /\ hasUnsavedChanges

(***************************************************************************)
(* C24: hasUnsavedChanges while requests are in flight.                    *)
(***************************************************************************)
\* The file the page loaded last, as the upload answered it.
LoadedFile == Get(call).data

\* The content the store holds for the file loaded last: what was uploaded,
\* or what the last successful save wrote.
SavedContent == storage.files[LoadedFile.id].content

\* C24: hasUnsavedChanges is false only while the text of the command list,
\* with every transformation applied since the load, is the content saved
\* last; a transformation applied while a save is in flight is not reported
\* as saved.
C24_UnsavedChangesSound ==
    (currentFile # None /\ call # None /\ ~hasUnsavedChanges)
        => ReconstructGcodeContent(commands) = SavedContent

(***************************************************************************)
(* C25: the current file and the command list belong together.             *)
(***************************************************************************)
\* C25: currentFile is the stored file from whose content commands was
\* parsed; the response to a save of a file loaded earlier never replaces
\* it.
C25_CurrentFileConsistent ==
    currentFile # None => call # None /\ Get(currentFile).id = LoadedFile.id

(***************************************************************************)
(* C26: the commands drawn as selected.                                    *)
(***************************************************************************)
\* cmd.command.startsWith for a prefix of the letter G and one digit.
CommandStartsWith(cmd, digits) ==
    Len(cmd.command) >= 2 /\ cmd.command[1] = "G" /\ cmd.command[2] \in digits

\* renderToolpath: the commands it hands to renderMove, straight or through
\* renderArc.
IsDrawn(cmd) ==
    \/ CommandStartsWith(cmd, {"0", "1"}) /\ (cmd.x # None \/ cmd.y # None)
    \/ ~CommandStartsWith(cmd, {"0", "1"}) /\ CommandStartsWith(cmd, {"2", "3"})

\* renderToolpath and renderMove: the positions, counted from 0 in the list
\* rendered, of the commands drawn in the colour of the selection.
DrawnSelected(cmds, selectedCommands) ==
    {index \in 0..(Len(cmds) - 1) : IsDrawn(cmds[index + 1]) /\ index \in selectedCommands}

\* The file lines of the commands the renderer draws as selected when
\* renderVisualization has run with the selection of the page.
LinesDrawnSelected ==
    {Get(rendered)[index + 1].line : index \in DrawnSelected(Get(rendered), selectedLines)}

\* The file lines of the commands that are visible, drawn and selected.
LinesVisibleSelected ==
    {commands[i].line : i \in {j \in 1..Len(commands) :
        /\ (commands[j].z = None \/ Get(commands[j].z) \in visibleZHeights)
        /\ IsDrawn(commands[j])
        /\ (j - 1) \in selectedLines}}

\* C26: the commands the renderer draws as selected are exactly the visible
\* commands whose index in the whole command list is in selectedLines.
C26_SelectionHighlight ==
    (rendered # None /\ Get(rendered) = VisibleCommands(commands, visibleZHeights))
        => LinesDrawnSelected = LinesVisibleSelected

(***************************************************************************)
(* C27: a transformation changes coordinates and nothing else.             *)
(***************************************************************************)
\* The parameter words of the code portion of a line other than X, Y and Z:
\* every word behind the instruction that is a letter with a number, as the
\* letter in upper case and the value.
OtherWords(line) ==
    LET code == CodePortion(line)
        first == IF WordStarts(code) = {} THEN 0
                 ELSE CHOOSE i \in WordStarts(code) : \A j \in WordStarts(code) : i <= j
    IN  {<<ToUpperChar(code[i]), ParseFloat(Tail(WordAt(code, i)))>> :
            i \in {j \in WordStarts(code) :
                      /\ j # first
                      /\ ToUpperChar(code[j]) \notin {"X", "Y", "Z"}
                      /\ IsNumber(Tail(WordAt(code, j)))}}

\* C27: the raw text of every command a transformation returns has the
\* parameter words other than X, Y and Z that it had before: F, E and S, and
\* further words such as the I and J of an arc.
C27_OnlyCoordinatesChange ==
    Called => \A i \in 1..InputLength : OtherWords(After(i).raw) = OtherWords(Before(i).raw)

=============================================================================
